---- MODULE Spec2Model ----
(***************************************************************************)
(* A model of the in-memory todo service: the zod validators, the store    *)
(* (the `todos` array) and the HTTP handlers that operate on it.  Every    *)
(* handler is synchronous, so each one is a single atomic action; the      *)
(* specification SpecServe takes the handlers in the steps of their code,  *)
(* with several requests in flight, to show that this is so.               *)
(*                                                                         *)
(* JavaScript values are tagged records: Undefined, Null, Str(s), Num(n).  *)
(* A string is the sequence of its characters (UTF-16 code units), so that *)
(* length checks, the datetime pattern and the < comparison of strings are *)
(* computed the way the code computes them.  A character is written as     *)
(* itself when it is printable ASCII, as "\t", "\n", "\f", "\r" for these  *)
(* four, and as its JavaScript escape, a backslash, u and four upper-case  *)
(* hexadecimal digits, otherwise: U+2000 is "\\u2000".  In a request body, *)
(* Undefined stands for a key that is not present (JSON cannot carry       *)
(* undefined).                                                             *)
(***************************************************************************)
EXTENDS Integers, Sequences, FiniteSets, TLC

\* ------------------------------------------------------------------ bounds
\* The collection is never grown beyond MaxTodos records.
MaxTodos == 3
\* The clock runs from 0 to MaxClock milliseconds after ClockBase.
MaxClock == 1
\* uuid() is called at most MaxUuid times.
MaxUuid == 1
\* The numbers of a query the model computes with are below MaxNumber in size.
MaxNumber == 1000000

\* --------------------------------------------------------- program constants
MinTitleLen == 1
MaxTitleLen == 200
MaxDescriptionLen == 2000
MinPriority == 1
MaxPriority == 3

\* ------------------------------------------------------------------ values
Undefined == [k |-> "undefined"]
Null == [k |-> "null"]
Str(s) == [k |-> "str", s |-> s]
Num(n) == [k |-> "num", n |-> n]

IsStr(v) == v.k = "str"
IsNum(v) == v.k = "num"
\* JavaScript's  v == null : true of null and of undefined.
IsNullish(v) == v = Undefined \/ v = Null

\* The characters the model uses, in increasing UTF-16 code unit order.
Alphabet ==
  << "-", ".", "0", "1", "2", "3", "4", "5", "6", "7", "8", "9", ":",
     "A", "B", "D", "T", "Z", "a", "b", "c", "d", "e", "g", "i", "n", "o",
     "p", "r", "s", "t", "u", "x", "y", "z" >>
CharCodes ==
  [c \in {Alphabet[i] : i \in 1..Len(Alphabet)} |->
     CHOOSE i \in 1..Len(Alphabet) : Alphabet[i] = c]
CharCode(c) == CharCodes[c]
DigitChars == <<"0", "1", "2", "3", "4", "5", "6", "7", "8", "9">>
Digit(d) == DigitChars[d + 1]
IsDigit(c) == c \in {"0", "1", "2", "3", "4", "5", "6", "7", "8", "9"}
AllDigits(s) == \A i \in 1..Len(s) : IsDigit(s[i])
\* The value of a string of decimal digits.
RECURSIVE DigitsValue(_)
DigitsValue(s) ==
  IF s = <<>> THEN 0
  ELSE 10 * DigitsValue(SubSeq(s, 1, Len(s) - 1))
         + (CHOOSE d \in 0..9 : Digit(d) = s[Len(s)])

\* a < b on JavaScript strings: at the first position where they differ the
\* code unit of a is the smaller one, or a is a proper prefix of b.
StrLess(a, b) ==
  LET n == IF Len(a) < Len(b) THEN Len(a) ELSE Len(b)
      diff == {i \in 1..n : a[i] # b[i]}
  IN  IF diff = {}
      THEN Len(a) < Len(b)
      ELSE LET i == CHOOSE k \in diff : \A j \in diff : k <= j
           IN  CharCode(a[i]) < CharCode(b[i])
StrLeq(a, b) == a = b \/ StrLess(a, b)

Repeat(c, n) == [i \in 1..n |-> c]

\* --------------------------------------------------------------- the clock
\* new Date().toISOString(): the clock counts milliseconds from
\* 2024-01-01T00:00:00.000Z and stays within that second.
ClockBase ==
  << "2", "0", "2", "4", "-", "0", "1", "-", "0", "1", "T",
     "0", "0", ":", "0", "0", ":", "0", "0", "." >>
ToISOString(t) ==
  Str(ClockBase \o << Digit((t \div 100) % 10), Digit((t \div 10) % 10),
                      Digit(t % 10), "Z" >>)

\* -------------------------------------------------------------- validators
Pending == Str(<<"p", "e", "n", "d", "i", "n", "g">>)
Done == Str(<<"d", "o", "n", "e">>)

\* A ZodIssue: its code and its path, the key of the failing field.  The
\* issue's message and its other attributes are not modelled.
Issue(code, key) == [code |-> code, path |-> <<key>>]
\* A key declared .optional() takes undefined, one declared
\* .optional().nullable() takes null as well.
Optional(v, issues) == IF v = Undefined THEN <<>> ELSE issues
OptionalNullable(v, issues) == IF IsNullish(v) THEN <<>> ELSE issues

\* z.string().min(1).max(200)
TitleIssues(v) ==
  IF ~IsStr(v) THEN <<Issue("invalid_type", "title")>>
  ELSE IF Len(v.s) < MinTitleLen THEN <<Issue("too_small", "title")>>
  ELSE IF Len(v.s) > MaxTitleLen THEN <<Issue("too_big", "title")>>
  ELSE <<>>
ValidTitle(v) ==
  IsStr(v) /\ Len(v.s) >= MinTitleLen /\ Len(v.s) <= MaxTitleLen
\* z.string().max(2000)
DescriptionIssues(v) ==
  IF ~IsStr(v) THEN <<Issue("invalid_type", "description")>>
  ELSE IF Len(v.s) > MaxDescriptionLen
  THEN <<Issue("too_big", "description")>>
  ELSE <<>>
ValidDescription(v) == IsStr(v) /\ Len(v.s) <= MaxDescriptionLen
\* z.string().datetime() of zod 3.23 and later: a date of the calendar, T,
\* HH:MM with the hour up to 23 and the minute up to 59, optionally :SS with
\* the second up to 59 and an optional fraction, then Z.
IsLeapYear(y) == y % 4 = 0 /\ (y % 100 # 0 \/ y % 400 = 0)
DaysInMonth(y, m) ==
  IF m = 2 THEN (IF IsLeapYear(y) THEN 29 ELSE 28)
  ELSE IF m \in {4, 6, 9, 11} THEN 30 ELSE 31
IsDate(s) ==
  /\ Len(s) = 10
  /\ AllDigits(SubSeq(s, 1, 4)) /\ s[5] = "-"
  /\ AllDigits(SubSeq(s, 6, 7)) /\ s[8] = "-"
  /\ AllDigits(SubSeq(s, 9, 10))
  /\ LET year == DigitsValue(SubSeq(s, 1, 4))
         month == DigitsValue(SubSeq(s, 6, 7))
         day == DigitsValue(SubSeq(s, 9, 10))
     IN  /\ month >= 1 /\ month <= 12
         /\ day >= 1 /\ day <= DaysInMonth(year, month)
IsTime(s) ==
  /\ Len(s) >= 5
  /\ AllDigits(SubSeq(s, 1, 2)) /\ DigitsValue(SubSeq(s, 1, 2)) <= 23
  /\ s[3] = ":"
  /\ AllDigits(SubSeq(s, 4, 5)) /\ DigitsValue(SubSeq(s, 4, 5)) <= 59
  /\ \/ Len(s) = 5
     \/ /\ Len(s) >= 8
        /\ s[6] = ":"
        /\ AllDigits(SubSeq(s, 7, 8)) /\ DigitsValue(SubSeq(s, 7, 8)) <= 59
        /\ \/ Len(s) = 8
           \/ /\ Len(s) >= 10
              /\ s[9] = "."
              /\ AllDigits(SubSeq(s, 10, Len(s)))
IsDatetime(s) ==
  /\ Len(s) >= 17
  /\ IsDate(SubSeq(s, 1, 10))
  /\ s[11] = "T"
  /\ IsTime(SubSeq(s, 12, Len(s) - 1))
  /\ s[Len(s)] = "Z"
ValidDueDate(v) == IsStr(v) /\ IsDatetime(v.s)
DueDateIssues(v) ==
  IF ~IsStr(v) THEN <<Issue("invalid_type", "dueDate")>>
  ELSE IF ~IsDatetime(v.s) THEN <<Issue("invalid_string", "dueDate")>>
  ELSE <<>>
\* z.union([z.literal(1), z.literal(2), z.literal(3)])
ValidPriority(v) == IsNum(v) /\ v.n \in MinPriority..MaxPriority
PriorityIssues(v) ==
  IF ValidPriority(v) THEN <<>> ELSE <<Issue("invalid_union", "priority")>>
\* z.union([z.literal('pending'), z.literal('done')])
ValidStatus(v) == v = Pending \/ v = Done
StatusIssues(v) ==
  IF ValidStatus(v) THEN <<>> ELSE <<Issue("invalid_union", "status")>>

CreateKeys == {"title", "description", "dueDate", "priority"}
UpdateKeys == {"title", "description", "status", "dueDate", "priority"}
\* The keys a request body of the model may carry: the schema's, and one the
\* schemas do not know.
BodyKeys == UpdateKeys \cup {"createdAt"}

\* z.object() keeps the keys of its shape and strips the others.
Strip(body, keys) == [f \in keys |-> body[f]]

\* createTodoSchema.safeParse(body).success
CreateSchemaOk(body) ==
  /\ ValidTitle(body.title)
  /\ (body.description = Undefined \/ ValidDescription(body.description))
  /\ (body.dueDate = Undefined \/ ValidDueDate(body.dueDate))
  /\ (body.priority = Undefined \/ ValidPriority(body.priority))
\* createTodoSchema.safeParse(body).error.issues, in the order of the schema's
\* keys.
CreateIssues(body) ==
  TitleIssues(body.title)
    \o Optional(body.description, DescriptionIssues(body.description))
    \o Optional(body.dueDate, DueDateIssues(body.dueDate))
    \o Optional(body.priority, PriorityIssues(body.priority))
\* createTodoSchema.parse(body)
CreateParse(body) == Strip(body, CreateKeys)

\* updateTodoSchema.safeParse(body).success
UpdateSchemaOk(body) ==
  /\ (body.title = Undefined \/ ValidTitle(body.title))
  /\ (body.description = Undefined \/ ValidDescription(body.description))
  /\ (body.status = Undefined \/ ValidStatus(body.status))
  /\ (IsNullish(body.dueDate) \/ ValidDueDate(body.dueDate))
  /\ (IsNullish(body.priority) \/ ValidPriority(body.priority))
\* updateTodoSchema.safeParse(body).error.issues
UpdateIssues(body) ==
  Optional(body.title, TitleIssues(body.title))
    \o Optional(body.description, DescriptionIssues(body.description))
    \o Optional(body.status, StatusIssues(body.status))
    \o OptionalNullable(body.dueDate, DueDateIssues(body.dueDate))
    \o OptionalNullable(body.priority, PriorityIssues(body.priority))
\* A variant of UpdateParse that lets unknown keys through (.passthrough()).
UpdateParsePassthrough(body) == body
\* updateTodoSchema.parse(body)
UpdateParse(body) == Strip(body, UpdateKeys)

\* PUT: const body = {...req.body}; if (!('status' in body)) body.status = 'pending'
\* A variant of WithDefaultStatus that fills in the default for null as well
\* (body.status == null for !('status' in body)).
WithDefaultStatusForNull(body) ==
  IF IsNullish(body.status) THEN [body EXCEPT !.status = Pending] ELSE body
WithDefaultStatus(body) ==
  IF body.status = Undefined THEN [body EXCEPT !.status = Pending] ELSE body
\* createTodoSchema.extend({status: <optional status>.default('pending')})
ReplaceSchemaOk(body) ==
  /\ CreateSchemaOk(body)
  /\ (body.status = Undefined \/ ValidStatus(body.status))
\* The issues of the extended schema: status is its last key.
ReplaceIssues(body) ==
  CreateIssues(body) \o Optional(body.status, StatusIssues(body.status))
ReplaceParse(body) ==
  LET out == Strip(body, UpdateKeys)
  IN  IF out.status = Undefined THEN [out EXCEPT !.status = Pending] ELSE out

\* ------------------------------------------------------------------- state
VARIABLES
  todos,   \* the store: the sequence of Todo records, in array order
  now,     \* what new Date() reads, in milliseconds after ClockBase
  issued,  \* how many ids uuid() has generated
  resp,    \* the last exchange: the handler, its :id, the request body,
           \* and the response's status code and body
  calls    \* the requests in flight, one per caller, and how far the
           \* handler of each has run

vars == <<todos, now, issued, resp, calls>>

\* uuid(): the n-th generated id.  Generated ids are distinct from each other
\* and from the ids clients make up themselves.
Uuid(n) == Str(<<"u", Digit(n)>>)
ClientIds == {Str(<<"c", "1">>)}
\* The ids a request may name: made up by the client, or learnt from a response.
ReqIds == ClientIds \cup {Uuid(n) : n \in 1..issued}

NotFoundBody == [message |-> "Not found"]
\* res.status(400).json({ message: 'Validation error', issues: err.issues })
ValidationBody(issues) == [message |-> "Validation error", issues |-> issues]
NoId == Undefined
NoBody == Undefined
Response(op, id, req, code, body) ==
  [op |-> op, id |-> id, req |-> req, code |-> code, body |-> body]

\* todos.findIndex(t => t.id === id), 1-based; 0 stands for -1.
FindIndex(ts, id) ==
  IF \E i \in 1..Len(ts) : ts[i].id = id
  THEN CHOOSE i \in 1..Len(ts) :
         ts[i].id = id /\ \A j \in 1..(i - 1) : ts[j].id # id
  ELSE 0

\* A variant of RemoveAt that drops the last record (todos.pop()).
RemoveLast(ts, idx) == [i \in 1..(Len(ts) - 1) |-> ts[i]]
\* todos.splice(idx, 1)
RemoveAt(ts, idx) ==
  [i \in 1..(Len(ts) - 1) |-> IF i < idx THEN ts[i] ELSE ts[i + 1]]

\* The clients that may have a request in flight at the same time.
Callers == {"a", "b"}
\* A caller with no request in flight.  raced tells whether the handler that
\* answered last, if it was this caller's, ran its lookup and its write with
\* another request in flight.
Idle(raced) ==
  [pc |-> "idle", op |-> "none", id |-> NoId, body |-> NoBody, idx |-> 0,
   raced |-> raced]

Init ==
  /\ todos = <<>>
  /\ now = 0
  /\ issued = 0
  /\ resp = Response("none", NoId, NoBody, 0, Undefined)
  /\ calls = [c \in Callers |-> Idle(FALSE)]

\* Time passes between two requests.
Tick ==
  /\ now < MaxClock
  /\ now' = now + 1
  /\ UNCHANGED <<todos, issued, resp>>

\* ------------------------------------------------------------ POST /todos
NewTodo(id, input, t) ==
  [ id          |-> id,
    title       |-> input.title,
    description |-> input.description,
    status      |-> Pending,
    createdAt   |-> ToISOString(t),
    updatedAt   |-> ToISOString(t),
    dueDate     |-> input.dueDate,
    priority    |-> input.priority ]

\* A variant of Create that puts the new record in front (unshift for push).
CreateInFront(body) ==
  IF ~CreateSchemaOk(body)
  THEN /\ resp' = Response("create", NoId, body, 400,
                           ValidationBody(CreateIssues(body)))
       /\ UNCHANGED <<todos, now, issued>>
  ELSE /\ Len(todos) < MaxTodos
       /\ issued < MaxUuid
       /\ LET todo == NewTodo(Uuid(issued + 1), CreateParse(body), now)
          IN  /\ todos' = <<todo>> \o todos
              /\ resp' = Response("create", NoId, body, 201, todo)
       /\ issued' = issued + 1
       /\ UNCHANGED now

Create(body) ==
  IF ~CreateSchemaOk(body)
  THEN /\ resp' = Response("create", NoId, body, 400,
                           ValidationBody(CreateIssues(body)))
       /\ UNCHANGED <<todos, now, issued>>
  ELSE /\ Len(todos) < MaxTodos
       /\ issued < MaxUuid
       /\ LET todo == NewTodo(Uuid(issued + 1), CreateParse(body), now)
          IN  /\ todos' = Append(todos, todo)
              /\ resp' = Response("create", NoId, body, 201, todo)
       /\ issued' = issued + 1
       /\ UNCHANGED now

\* --------------------------------------------------------- GET /todos/:id
FindById(id) ==
  LET idx == FindIndex(todos, id)
  IN  /\ resp' = IF idx = 0
                 THEN Response("find", id, NoBody, 404, NotFoundBody)
                 ELSE Response("find", id, NoBody, 200, todos[idx])
      /\ UNCHANGED <<todos, now, issued>>

\* ------------------------------------------------------- PATCH /todos/:id
\* { ...current, ...patch }
Spread(current, patch) ==
  [f \in DOMAIN current |->
     IF f \in DOMAIN patch /\ patch[f] # Undefined THEN patch[f] ELSE current[f]]

\* patch.dueDate === null ? undefined : patch.dueDate ?? current.dueDate
MergeDueDate(current, patch) ==
  IF patch.dueDate = Null THEN Undefined
  ELSE IF IsNullish(patch.dueDate) THEN current.dueDate ELSE patch.dueDate

\* A variant of MergePriority that stores the null it is given.
MergePriorityKeepsNull(current, patch) == patch.priority
\* patch.priority === null ? undefined : patch.priority
MergePriority(current, patch) ==
  IF patch.priority = Null THEN Undefined ELSE patch.priority

\* A variant of Merge that does not refresh updatedAt.
MergeKeepsUpdatedAt(current, patch, t) ==
  [Spread(current, patch) EXCEPT
     !.dueDate = MergeDueDate(current, patch),
     !.priority = MergePriority(current, patch)]
Merge(current, patch, t) ==
  [Spread(current, patch) EXCEPT
     !.dueDate = MergeDueDate(current, patch),
     !.priority = MergePriority(current, patch),
     !.updatedAt = ToISOString(t)]

PartialUpdate(id, body) ==
  LET idx == FindIndex(todos, id)
  IN  IF idx = 0
      THEN /\ resp' = Response("patch", id, body, 404, NotFoundBody)
           /\ UNCHANGED <<todos, now, issued>>
      ELSE IF ~UpdateSchemaOk(body)
      THEN /\ resp' = Response("patch", id, body, 400,
                               ValidationBody(UpdateIssues(body)))
           /\ UNCHANGED <<todos, now, issued>>
      ELSE LET updated == Merge(todos[idx], UpdateParse(body), now)
           IN  /\ todos' = [todos EXCEPT ![idx] = updated]
               /\ resp' = Response("patch", id, body, 200, updated)
               /\ UNCHANGED <<now, issued>>

\* --------------------------------------------------------- PUT /todos/:id
\* A variant of Replacement that stamps createdAt on every PUT.
ReplacementResetsCreatedAt(ts, idx, id, input, t) ==
  [ id          |-> IF idx = 0 THEN id ELSE ts[idx].id,
    title       |-> input.title,
    description |-> input.description,
    status      |-> input.status,
    createdAt   |-> ToISOString(t),
    updatedAt   |-> ToISOString(t),
    dueDate     |-> input.dueDate,
    priority    |-> input.priority ]
\* A variant of Replacement that keeps the description the input omits.
ReplacementKeepsOmitted(ts, idx, id, input, t) ==
  [ id          |-> IF idx = 0 THEN id ELSE ts[idx].id,
    title       |-> input.title,
    description |-> IF input.description = Undefined /\ idx # 0
                    THEN ts[idx].description ELSE input.description,
    status      |-> input.status,
    createdAt   |-> IF idx = 0 THEN ToISOString(t) ELSE ts[idx].createdAt,
    updatedAt   |-> ToISOString(t),
    dueDate     |-> input.dueDate,
    priority    |-> input.priority ]
Replacement(ts, idx, id, input, t) ==
  [ id          |-> IF idx = 0 THEN id ELSE ts[idx].id,
    title       |-> input.title,
    description |-> input.description,
    status      |-> input.status,
    createdAt   |-> IF idx = 0 THEN ToISOString(t) ELSE ts[idx].createdAt,
    updatedAt   |-> ToISOString(t),
    dueDate     |-> input.dueDate,
    priority    |-> input.priority ]

\* A variant of Put that pushes whether or not the id was found.
PutAlwaysPushes(ts, idx, replacement) == Append(ts, replacement)
\* if (idx === -1) todos.push(replacement); else todos[idx] = replacement
Put(ts, idx, replacement) ==
  IF idx = 0 THEN Append(ts, replacement) ELSE [ts EXCEPT ![idx] = replacement]

Replace(id, reqBody) ==
  LET body == WithDefaultStatus(reqBody)
  IN  IF ~ReplaceSchemaOk(body)
      THEN /\ resp' = Response("put", id, reqBody, 400,
                               ValidationBody(ReplaceIssues(body)))
           /\ UNCHANGED <<todos, now, issued>>
      ELSE LET idx == FindIndex(todos, id)
               replacement == Replacement(todos, idx, id, ReplaceParse(body), now)
           IN  /\ (idx = 0 => Len(todos) < MaxTodos)
               /\ todos' = Put(todos, idx, replacement)
               /\ resp' = Response("put", id, reqBody,
                                   IF idx = 0 THEN 201 ELSE 200, replacement)
               /\ UNCHANGED <<now, issued>>

\* ------------------------------------------------------ DELETE /todos/:id
\* A variant of Delete without the not-found check: splice(-1, 1) removes the
\* last record.
DeleteWithoutCheck(id) ==
  LET idx == FindIndex(todos, id)
      at == IF idx = 0 THEN Len(todos) ELSE idx
  IN  /\ todos' = IF at = 0 THEN todos ELSE RemoveAt(todos, at)
      /\ resp' = Response("delete", id, NoBody, 200,
                          IF at = 0 THEN Undefined ELSE todos[at])
      /\ UNCHANGED <<now, issued>>
Delete(id) ==
  LET idx == FindIndex(todos, id)
  IN  IF idx = 0
      THEN /\ resp' = Response("delete", id, NoBody, 404, NotFoundBody)
           /\ UNCHANGED <<todos, now, issued>>
      ELSE /\ todos' = RemoveAt(todos, idx)
           /\ resp' = Response("delete", id, NoBody, 200, todos[idx])
           /\ UNCHANGED <<now, issued>>

\* ------------------------- POST /todos/:id/done, POST /todos/:id/pending
\* const todo = todos.find(...); todo.status = status; todo.updatedAt = now
\* A variant of SetStatus that rebuilds the record from its required fields
\* and loses the optional ones.
SetStatusRebuilds(op, id, status) ==
  LET idx == FindIndex(todos, id)
  IN  IF idx = 0
      THEN /\ resp' = Response(op, id, NoBody, 404, NotFoundBody)
           /\ UNCHANGED <<todos, now, issued>>
      ELSE LET todo == [todos[idx] EXCEPT !.status = status,
                                          !.updatedAt = ToISOString(now),
                                          !.description = Undefined,
                                          !.dueDate = Undefined,
                                          !.priority = Undefined]
           IN  /\ todos' = [todos EXCEPT ![idx] = todo]
               /\ resp' = Response(op, id, NoBody, 200, todo)
               /\ UNCHANGED <<now, issued>>

SetStatus(op, id, status) ==
  LET idx == FindIndex(todos, id)
  IN  IF idx = 0
      THEN /\ resp' = Response(op, id, NoBody, 404, NotFoundBody)
           /\ UNCHANGED <<todos, now, issued>>
      ELSE LET todo == [todos[idx] EXCEPT !.status = status,
                                          !.updatedAt = ToISOString(now)]
           IN  /\ todos' = [todos EXCEPT ![idx] = todo]
               /\ resp' = Response(op, id, NoBody, 200, todo)
               /\ UNCHANGED <<now, issued>>

MarkDone(id) == SetStatus("done", id, Done)
MarkPending(id) == SetStatus("pending", id, Pending)

\* -------------------------------------------------------------- GET /todos
\* Defaults of the handler and limits of listQuerySchema.
DefaultPage == 1
DefaultPageSize == 20
MinPage == 1
MinPageSize == 1
MaxPageSize == 100

\* Number(value), the conversion z.coerce.number() applies to a query value.
\* Its results in the model: Num(n) for an integer below MaxNumber in size,
\* Frac(floor) for a number that is not an integer (floor is the integer just
\* below it), Big(neg, int) for a finite number of MaxNumber or more in size
\* (int: it is an integer), Inf(neg) for +-Infinity, and NaN.  The result is
\* that of the double nearest to the literal's exact value, ties to even.
NaN == [k |-> "nan"]
Frac(floor) == [k |-> "frac", floor |-> floor]
Big(neg, int) == [k |-> "big", neg |-> neg, int |-> int]
Inf(neg) == [k |-> "inf", neg |-> neg]

\* StrWhiteSpaceChar: the 25 characters Number() trims from both ends, White
\* Space (TAB, VT, FF, SP, U+00A0, U+FEFF and the space separators U+1680,
\* U+2000 to U+200A, U+202F, U+205F, U+3000) and the line terminators (LF, CR,
\* U+2028, U+2029).
WhiteSpace ==
  { "\t", "\n", "\\u000B", "\f", "\r", " ", "\\u00A0", "\\u1680",
    "\\u2000", "\\u2001", "\\u2002", "\\u2003", "\\u2004", "\\u2005",
    "\\u2006", "\\u2007", "\\u2008", "\\u2009", "\\u200A",
    "\\u2028", "\\u2029", "\\u202F", "\\u205F", "\\u3000", "\\uFEFF" }
\* The element of a set of one element.  Only({e(x) : x \in {v}}) is e(v) with
\* v evaluated once.
Only(S) == CHOOSE x \in S : TRUE
\* seq without the elements of drop it starts with, or ends with.
StripStart(s, drop) ==
  IF s = <<>> \/ s[1] \notin drop THEN s
  ELSE IF \A i \in 1..Len(s) : s[i] \in drop THEN <<>>
  ELSE SubSeq(s, CHOOSE i \in 1..Len(s) :
                   s[i] \notin drop /\ \A j \in 1..(i - 1) : s[j] \in drop,
              Len(s))
StripEnd(s, drop) ==
  IF s = <<>> \/ s[Len(s)] \notin drop THEN s
  ELSE IF \A i \in 1..Len(s) : s[i] \in drop THEN <<>>
  ELSE SubSeq(s, 1, CHOOSE i \in 1..Len(s) :
                      s[i] \notin drop /\ \A j \in (i + 1)..Len(s) : s[j] \in drop)
TrimStart(s) == StripStart(s, WhiteSpace)
TrimEnd(s) == StripEnd(s, WhiteSpace)
Trim(s) == TrimEnd(TrimStart(s))
StripLeadingZeros(s) == StripStart(s, {"0"})
StripTrailingZeros(s) == StripEnd(s, {"0"})

\* Exact arithmetic on sequences of the digits 0..9.  A natural number is the
\* sequence of its digits without leading zeros (0 is the empty sequence); a
\* fraction below 1 is the sequence of its digits after the point.
ToDigits(s) ==
  SubSeq([i \in 1..Len(s) |-> CHOOSE d \in 0..9 : Digit(d) = s[i]], 1, Len(s))
Zeros(n) == SubSeq([i \in 1..n |-> 0], 1, n)
RECURSIVE NaturalValue(_)
NaturalValue(d) ==
  IF d = <<>> THEN 0
  ELSE 10 * NaturalValue(SubSeq(d, 1, Len(d) - 1)) + d[Len(d)]
\* x < y for two sequences of one length.
LexLess(x, y) ==
  \E a \in {x}, b \in {y} :
    \E i \in 1..Len(a) : a[i] < b[i] /\ \A j \in 1..(i - 1) : a[j] = b[j]
NaturalLess(x, y) ==
  \E a \in {x}, b \in {y} :
    Len(a) < Len(b) \/ (Len(a) = Len(b) /\ LexLess(a, b))
FractionLeq(x, y) ==
  \E a \in {x}, b \in {y} :
    \E n \in {IF Len(a) > Len(b) THEN Len(a) ELSE Len(b)} :
      \E pa \in {a \o Zeros(n - Len(a))}, pb \in {b \o Zeros(n - Len(b))} :
        pa = pb \/ LexLess(pa, pb)
\* 2 * x: a digit doubles to an even digit and takes a carry of one from a
\* digit of 5 or more behind it.
Double(x) ==
  Only({ (IF d[1] >= 5 THEN <<1>> ELSE <<>>)
           \o SubSeq([i \in 1..Len(d) |->
                        ((2 * d[i]) % 10)
                          + (IF i < Len(d) /\ d[i + 1] >= 5 THEN 1 ELSE 0)],
                     1, Len(d)) : d \in {x} })
\* x doubled n times: the first half of the doublings, then the rest.
RECURSIVE DoubleTimes(_, _)
DoubleTimes(x, n) ==
  IF n = 0 THEN x
  ELSE IF n = 1 THEN Double(x)
  ELSE Only({ DoubleTimes(h, n - (n \div 2)) :
                h \in {DoubleTimes(x, n \div 2)} })
Pow2Digits(e) == DoubleTimes(<<1>>, e)
\* x / 2 for a fraction: a digit halves and takes 5 from an odd digit before
\* it.
HalveFraction(x) ==
  Only({ SubSeq([i \in 1..(Len(f) + 1) |->
                   ((IF i <= Len(f) THEN f[i] ELSE 0)
                      + (IF i > 1 /\ f[i - 1] % 2 = 1 THEN 10 ELSE 0)) \div 2],
                1, Len(f) + 1) : f \in {x} })
RECURSIVE HalveTimes(_, _)
HalveTimes(x, n) ==
  IF n = 0 THEN x
  ELSE IF n = 1 THEN HalveFraction(x)
  ELSE Only({ HalveTimes(h, n - (n \div 2)) :
                h \in {HalveTimes(x, n \div 2)} })
\* 2^-j for j >= 1: a fraction of j digits.
TwoToMinus(j) == HalveTimes(<<5>>, j - 1)
\* 1 - x for a fraction whose last digit is not 0.
OneMinus(x) ==
  Only({ SubSeq([i \in 1..Len(f) |->
                   IF i = Len(f) THEN 10 - f[i] ELSE 9 - f[i]], 1, Len(f))
         : f \in {x} })
\* x - 1 for a natural whose last digit is not 0, and x + 1.
Pred(x) == Only({ [d EXCEPT ![Len(d)] = d[Len(d)] - 1] : d \in {x} })
Succ(x) ==
  Only({ IF \A i \in 1..Len(d) : d[i] = 9 THEN <<1>> \o Zeros(Len(d))
         ELSE Only({ SubSeq([i \in 1..Len(d) |->
                               IF i < k THEN d[i]
                               ELSE IF i = k THEN d[i] + 1 ELSE 0], 1, Len(d))
                     : k \in {CHOOSE i \in 1..Len(d) :
                                d[i] # 9 /\ \A j \in (i + 1)..Len(d) : d[j] = 9} })
         : d \in {x} })
\* The e with 2^e <= x < 2^(e+1), for a natural x from 1 to 2^52 - 1.
Log2(x) ==
  Only({ CHOOSE e \in 0..51 : /\ ~NaturalLess(d, Pow2Digits(e))
                              /\ NaturalLess(d, Pow2Digits(e + 1)) : d \in {x} })

\* The integer x, negated when neg, as a number of the model.
IntegerNumber(x, neg) ==
  Only({ IF Len(d) <= 9 /\ NaturalValue(d) < MaxNumber
         THEN Num(IF neg THEN 0 - NaturalValue(d) ELSE NaturalValue(d))
         ELSE Big(neg, TRUE) : d \in {x} })
\* A number that is no integer, between x and x + 1 in size.
FractionalNumber(x, neg) ==
  Only({ IF Len(d) <= 9 /\ NaturalValue(d) < MaxNumber
         THEN Frac(IF neg THEN 0 - NaturalValue(d) - 1 ELSE NaturalValue(d))
         ELSE Big(neg, FALSE) : d \in {x} })

\* The doubles end at 2^1024 - 2^971; from halfway to 2^1024 on, which is
\* 2^1024 - 2^970 = (2^54 - 1) * 2^970, a value rounds to Infinity.
OverflowThreshold == DoubleTimes(Pred(Pow2Digits(54)), 970)
\* The fraction fp is more than 2^-j away from 0 and from 1 when one of its
\* first z = (3 * j) \div 10 digits is not 0 and one is not 9: 2^10 > 10^3, so
\* 2^-j < 10^-z.
FarFromIntegers(fp, j) ==
  LET z == (3 * j) \div 10
  IN  /\ \E i \in 1..z : i <= Len(fp) /\ fp[i] # 0
      /\ \E i \in 1..z : i > Len(fp) \/ fp[i] # 9
\* The integer ip, within `half' of which everything rounds to it, followed
\* by the fraction fp.
RoundedNear(ip, fp, half, neg) ==
  IF FractionLeq(fp, half) THEN IntegerNumber(ip, neg)
  ELSE IF FractionLeq(OneMinus(half), fp) THEN IntegerNumber(Succ(ip), neg)
  ELSE FractionalNumber(ip, neg)
\* The double nearest to x.y, the natural x followed by the fraction y
\* (without trailing zeros), of at most 309 integer digits.
\*  - From 2^52 on every double is an integer.
\*  - Below, the doubles around an integer n of 2^e <= n < 2^(e+1) are
\*    2^(e-52) apart and n has an even significand: what lies within
\*    2^(e-53) of n, the halfway points included, rounds to n.
\*  - The smallest double above 0 is 2^-1074: what is at most 2^-1075 rounds
\*    to 0; the largest below 1 is 1 - 2^-53: from 1 - 2^-54 on a fraction
\*    rounds to 1.
RoundedDecimal(x, y, neg) ==
  Only({ IF Len(ip) = 309 /\ ~NaturalLess(ip, OverflowThreshold)
         THEN Inf(neg)
         ELSE IF Len(ip) >= 16 /\ ~NaturalLess(ip, Pow2Digits(52))
         THEN Big(neg, TRUE)
         ELSE IF fp = <<>> THEN IntegerNumber(ip, neg)
         ELSE IF ip = <<>>
         THEN IF Len(fp) > 323 /\ (\A i \in 1..323 : fp[i] = 0)
                 /\ FractionLeq(fp, TwoToMinus(1075))
              THEN Num(0)
              ELSE IF ~FarFromIntegers(fp, 54) /\ fp[1] = 9
                      /\ FractionLeq(OneMinus(TwoToMinus(54)), fp)
              THEN IntegerNumber(<<1>>, neg)
              ELSE FractionalNumber(ip, neg)
         ELSE Only({ IF FarFromIntegers(fp, j) THEN FractionalNumber(ip, neg)
                     ELSE RoundedNear(ip, fp, TwoToMinus(j), neg) :
                       j \in {53 - Log2(ip)} })
         : ip \in {x}, fp \in {y} })

\* The value of the decimal literal  int.frac e exp,  negated when neg.
\* With all its digits m and no zeros at either end it is m * 10^k, a number
\* of `order' integer digits.  10^309 is beyond the doubles, and what is below
\* 10^-324 is below 2^-1075.
DecimalMagnitude(m, k, neg) ==
  LET order == Len(m) + k
  IN  IF m = <<>> THEN Num(0)
      ELSE IF order > 309 THEN Inf(neg)
      ELSE IF order < -323 THEN Num(0)
      ELSE IF k >= 0 THEN RoundedDecimal(ToDigits(m) \o Zeros(k), <<>>, neg)
      ELSE IF order <= 0
      THEN RoundedDecimal(<<>>, Zeros(0 - order) \o ToDigits(m), neg)
      ELSE RoundedDecimal(ToDigits(SubSeq(m, 1, order)),
                          ToDigits(SubSeq(m, order + 1, Len(m))), neg)
DecimalValue(int, frac, exp, neg) ==
  Only({ Only({ DecimalMagnitude(m, exp - Len(frac) + (Len(all) - Len(m)), neg)
                : m \in {StripTrailingZeros(all)} })
         : all \in {StripLeadingZeros(int \o frac)} })

\* The digits of a 0x, 0o or 0b literal; -1 for any other character.
LowerHexChars ==
  << "0", "1", "2", "3", "4", "5", "6", "7", "8", "9",
     "a", "b", "c", "d", "e", "f" >>
UpperHexChars == <<"A", "B", "C", "D", "E", "F">>
HexDigitValue(c) ==
  IF \E i \in 1..16 : LowerHexChars[i] = c
  THEN (CHOOSE i \in 1..16 : LowerHexChars[i] = c) - 1
  ELSE IF \E i \in 1..6 : UpperHexChars[i] = c
  THEN (CHOOSE i \in 1..6 : UpperHexChars[i] = c) + 9
  ELSE -1
IsRadixDigits(s, radix) ==
  s # <<>> /\ \A i \in 1..Len(s) : HexDigitValue(s[i]) \in 0..(radix - 1)
\* The bits of the digits: four to a hexadecimal digit, three to an octal
\* one, one to a binary one; without leading zeros.
BitsPerDigit(radix) == IF radix = 16 THEN 4 ELSE IF radix = 8 THEN 3 ELSE 1
RECURSIVE Pow2(_)
Pow2(n) == IF n = 0 THEN 1 ELSE 2 * Pow2(n - 1)
Bits(str, radix) ==
  StripStart(
    Only({ SubSeq([i \in 1..(w * Len(s)) |->
                     (HexDigitValue(s[((i - 1) \div w) + 1])
                        \div Pow2(w - 1 - ((i - 1) % w))) % 2],
                  1, w * Len(s)) : s \in {str}, w \in {BitsPerDigit(radix)} }),
    {0})
RECURSIVE BitsValue(_)
BitsValue(b) ==
  IF b = <<>> THEN 0
  ELSE 2 * BitsValue(SubSeq(b, 1, Len(b) - 1)) + b[Len(b)]
\* NonDecimalIntegerLiteral: the value of the digits after 0x, 0o or 0b, an
\* integer.  It rounds to Infinity from 2^1024 - 2^970 on: with more than
\* 1024 bits, or with 1024 bits of which the first 54 are ones.
RadixNumber(s, radix) ==
  Only({ IF Len(b) > 1024 \/ (Len(b) = 1024 /\ \A i \in 1..54 : b[i] = 1)
         THEN Inf(FALSE)
         ELSE IF Len(b) <= 30 /\ BitsValue(b) < MaxNumber
         THEN Num(BitsValue(b))
         ELSE Big(FALSE, TRUE) : b \in {Bits(s, radix)} })

\* ExponentPart after its e: an optional sign and digits.  An exponent of ten
\* digits or more is beyond what the digits of a string can make up for.
IsExponent(s) ==
  LET d == IF s # <<>> /\ Head(s) \in {"+", "-"} THEN Tail(s) ELSE s
  IN  d # <<>> /\ AllDigits(d)
ExponentValue(s) ==
  LET neg == s # <<>> /\ Head(s) = "-"
      d == StripLeadingZeros(IF Head(s) \in {"+", "-"} THEN Tail(s) ELSE s)
      n == IF Len(d) > 9 THEN 999999999 ELSE DigitsValue(d)
  IN  IF neg THEN 0 - n ELSE n
\* StrUnsignedDecimalLiteral without Infinity: digits with at most one dot and
\* at least one digit, then an optional exponent.
DecimalNumber(s, neg) ==
  LET es == {i \in 1..Len(s) : s[i] \in {"e", "E"}}
  IN  IF Cardinality(es) > 1 THEN NaN
      ELSE LET e == IF es = {} THEN Len(s) + 1 ELSE CHOOSE i \in es : TRUE
               mant == SubSeq(s, 1, e - 1)
               expo == SubSeq(s, e + 1, Len(s))
               dots == {i \in 1..Len(mant) : mant[i] = "."}
           IN  IF Cardinality(dots) > 1 \/ (es # {} /\ ~IsExponent(expo))
               THEN NaN
               ELSE LET dot == IF dots = {} THEN Len(mant) + 1
                               ELSE CHOOSE i \in dots : TRUE
                        int == SubSeq(mant, 1, dot - 1)
                        frac == SubSeq(mant, dot + 1, Len(mant))
                    IN  IF AllDigits(int) /\ AllDigits(frac)
                           /\ Len(int) + Len(frac) >= 1
                        THEN DecimalValue(int, frac,
                               IF es = {} THEN 0 ELSE ExponentValue(expo), neg)
                        ELSE NaN
InfinityLiteral == <<"I", "n", "f", "i", "n", "i", "t", "y">>
\* StringToNumber: white space is trimmed; the empty string is 0; 0x, 0o and
\* 0b literals take no sign; a decimal literal or Infinity may carry one.
TrimmedToNumber(s) ==
  LET prefix == IF Len(s) >= 2 /\ s[1] = "0" THEN s[2] ELSE ""
      rest == SubSeq(s, 3, Len(s))
  IN  IF s = <<>> THEN Num(0)
      ELSE IF prefix \in {"x", "X"}
      THEN IF IsRadixDigits(rest, 16) THEN RadixNumber(rest, 16)
           ELSE NaN
      ELSE IF prefix \in {"o", "O"}
      THEN IF IsRadixDigits(rest, 8) THEN RadixNumber(rest, 8)
           ELSE NaN
      ELSE IF prefix \in {"b", "B"}
      THEN IF IsRadixDigits(rest, 2) THEN RadixNumber(rest, 2)
           ELSE NaN
      ELSE LET neg == Head(s) = "-"
               u == IF Head(s) \in {"+", "-"} THEN Tail(s) ELSE s
           IN  IF u = InfinityLiteral THEN Inf(neg) ELSE DecimalNumber(u, neg)
StringToNumber(str) == Only({ TrimmedToNumber(s) : s \in {Trim(str)} })
\* z.coerce.number(): Number(v).  A string is read as a numeric literal and
\* rounded to the nearest double, a number is itself, null is 0 and undefined
\* is NaN.
CoerceNumber(v) ==
  IF IsStr(v) THEN StringToNumber(v.s)
  ELSE IF v.k \in {"num", "frac", "big", "inf", "nan"} THEN v
  ELSE IF v = Null THEN Num(0)
  ELSE NaN

\* Number.isInteger(n), n < lo and n > hi on the numbers of the model.
IsInteger(n) == IsNum(n) \/ (n.k = "big" /\ n.int)
Below(n, lo) ==
  IF IsNum(n) THEN n.n < lo
  ELSE IF n.k = "frac" THEN n.floor < lo
  ELSE n.neg
Above(n, hi) ==
  IF IsNum(n) THEN n.n > hi
  ELSE IF n.k = "frac" THEN n.floor >= hi
  ELSE ~n.neg
\* z.coerce.number().int().min(lo).max(hi): NaN is an invalid_type and ends
\* the checks; otherwise each failing check adds its issue, in this order.
IntIssues(v, key) ==
  IF IsInteger(CoerceNumber(v)) THEN <<>> ELSE <<Issue("invalid_type", key)>>
MinIssues(v, lo, key) ==
  IF Below(CoerceNumber(v), lo) THEN <<Issue("too_small", key)>> ELSE <<>>
MaxIssues(v, hi, key) ==
  IF Above(CoerceNumber(v), hi) THEN <<Issue("too_big", key)>> ELSE <<>>
CoercedIntInIssues(v, lo, hi, key) ==
  IF CoerceNumber(v) = NaN THEN <<Issue("invalid_type", key)>>
  ELSE IntIssues(v, key) \o MinIssues(v, lo, key) \o MaxIssues(v, hi, key)
CoercedIntFromIssues(v, lo, key) ==
  IF CoerceNumber(v) = NaN THEN <<Issue("invalid_type", key)>>
  ELSE IntIssues(v, key) \o MinIssues(v, lo, key)
\* z.coerce.number().int().min(lo).max(hi)
CoercedIntIn(v, lo, hi) ==
  LET n == CoerceNumber(v) IN IsInteger(n) /\ ~Below(n, lo) /\ ~Above(n, hi)
\* z.coerce.number().int().min(lo)
CoercedIntFrom(v, lo) ==
  LET n == CoerceNumber(v) IN IsInteger(n) /\ ~Below(n, lo)

SortByCreatedAt == Str(<<"c", "r", "e", "a", "t", "e", "d", "A", "t">>)
SortByUpdatedAt == Str(<<"u", "p", "d", "a", "t", "e", "d", "A", "t">>)
SortByDueDate == Str(<<"d", "u", "e", "D", "a", "t", "e">>)
SortByPriority == Str(<<"p", "r", "i", "o", "r", "i", "t", "y">>)
SortKeys == {SortByCreatedAt, SortByUpdatedAt, SortByDueDate, SortByPriority}
Asc == Str(<<"a", "s", "c">>)
Desc == Str(<<"d", "e", "s", "c">>)
\* (a as any)[sortBy]
Field(todo, sortBy) ==
  IF sortBy = SortByCreatedAt THEN todo.createdAt
  ELSE IF sortBy = SortByUpdatedAt THEN todo.updatedAt
  ELSE IF sortBy = SortByDueDate THEN todo.dueDate
  ELSE todo.priority

QueryKeys == {"q", "status", "priority", "sortBy", "order", "page", "pageSize"}
\* listQuerySchema.safeParse(req.query).success
ListQuerySchemaOk(query) ==
  /\ (query.q = Undefined \/ IsStr(query.q))
  /\ (query.status = Undefined \/ ValidStatus(query.status))
  /\ (query.priority = Undefined
        \/ CoercedIntIn(query.priority, MinPriority, MaxPriority))
  /\ (query.sortBy = Undefined \/ query.sortBy \in SortKeys)
  /\ (query.order = Undefined \/ query.order \in {Asc, Desc})
  /\ (query.page = Undefined \/ CoercedIntFrom(query.page, MinPage))
  /\ (query.pageSize = Undefined
        \/ CoercedIntIn(query.pageSize, MinPageSize, MaxPageSize))
\* listQuerySchema.safeParse(req.query).error.issues, in the order of the
\* schema's keys.
QIssues(v) == IF IsStr(v) THEN <<>> ELSE <<Issue("invalid_type", "q")>>
SortByIssues(v) ==
  IF ~IsStr(v) THEN <<Issue("invalid_type", "sortBy")>>
  ELSE IF v \in SortKeys THEN <<>>
  ELSE <<Issue("invalid_enum_value", "sortBy")>>
OrderIssues(v) ==
  IF ~IsStr(v) THEN <<Issue("invalid_type", "order")>>
  ELSE IF v \in {Asc, Desc} THEN <<>>
  ELSE <<Issue("invalid_enum_value", "order")>>
ListQueryIssues(query) ==
  Optional(query.q, QIssues(query.q))
    \o Optional(query.status, StatusIssues(query.status))
    \o Optional(query.priority,
                 CoercedIntInIssues(query.priority, MinPriority, MaxPriority,
                                    "priority"))
    \o Optional(query.sortBy, SortByIssues(query.sortBy))
    \o Optional(query.order, OrderIssues(query.order))
    \o Optional(query.page,
                 CoercedIntFromIssues(query.page, MinPage, "page"))
    \o Optional(query.pageSize,
                 CoercedIntInIssues(query.pageSize, MinPageSize, MaxPageSize,
                                    "pageSize"))
\* listQuerySchema.parse(req.query), for a query the schema accepts (parse
\* throws on any other), with the handler's defaults applied: sortBy =
\* 'createdAt', order = 'desc', page = 1, pageSize = 20.  page, the one number
\* without an upper limit, is a number of the model, Num(n) or Big; pageSize
\* is an integer from 1 to 100.
ListQueryParse(query) ==
  [ q        |-> query.q,
    status   |-> query.status,
    priority |-> IF query.priority = Undefined THEN Undefined
                 ELSE CoerceNumber(query.priority),
    sortBy   |-> IF query.sortBy = Undefined THEN SortByCreatedAt
                 ELSE query.sortBy,
    order    |-> IF query.order = Undefined THEN Desc ELSE query.order,
    page     |-> IF query.page = Undefined THEN Num(DefaultPage)
                 ELSE CoerceNumber(query.page),
    pageSize |-> IF query.pageSize = Undefined THEN DefaultPageSize
                 ELSE CoerceNumber(query.pageSize).n ]

\* String.prototype.toLowerCase on the model's characters.
LowerChar(c) ==
  IF c = "A" THEN "a" ELSE IF c = "B" THEN "b" ELSE IF c = "D" THEN "d"
  ELSE IF c = "T" THEN "t" ELSE IF c = "Z" THEN "z" ELSE c
ToLowerCase(s) == [i \in 1..Len(s) |-> LowerChar(s[i])]
\* hay.includes(needle)
Includes(hay, needle) ==
  \E k \in 0..(Len(hay) - Len(needle)) :
    \A i \in 1..Len(needle) : hay[k + i] = needle[i]


\* A variant of MatchesText that does not lower the case of the record's text.
MatchesTextCaseSensitive(t, needle) ==
  \/ Includes(t.title.s, needle)
  \/ Includes(IF IsNullish(t.description) THEN <<>> ELSE t.description.s, needle)
\* t.title.toLowerCase().includes(needle) ||
\* (t.description ?? '').toLowerCase().includes(needle)
MatchesText(t, needle) ==
  \/ Includes(ToLowerCase(t.title.s), needle)
  \/ Includes(ToLowerCase(IF IsNullish(t.description) THEN <<>>
                          ELSE t.description.s), needle)

\* if (q) ...; if (status) ...; if (priority) ...   (the empty string and
\* undefined are falsy); result.filter is SelectSeq.
Truthy(v) == ~IsNullish(v) /\ v # Str(<<>>) /\ v # Num(0)
FilterText(ts, q) ==
  IF Truthy(q)
  THEN LET needle == ToLowerCase(q.s)
           keep(t) == MatchesText(t, needle)
       IN  SelectSeq(ts, keep)
  ELSE ts
FilterStatus(ts, status) ==
  IF Truthy(status)
  THEN LET keep(t) == t.status = status IN SelectSeq(ts, keep)
  ELSE ts
FilterPriority(ts, priority) ==
  IF Truthy(priority)
  THEN LET keep(t) == t.priority = priority IN SelectSeq(ts, keep)
  ELSE ts

\* A variant of Compare in which a missing key follows the direction too, so
\* that records without the key come first in descending order.
CompareNullsFollowOrder(a, b, sortBy, order) ==
  LET dir == IF order = Asc THEN 1 ELSE -1
      av == Field(a, sortBy)
      bv == Field(b, sortBy)
  IN  IF IsNullish(av) /\ IsNullish(bv) THEN 0
      ELSE IF IsNullish(av) THEN dir
      ELSE IF IsNullish(bv) THEN -dir
      ELSE IF sortBy = SortByPriority THEN (av.n - bv.n) * dir
      ELSE (IF StrLess(av.s, bv.s) THEN -1
            ELSE IF StrLess(bv.s, av.s) THEN 1 ELSE 0) * dir
\* A variant of Compare without the equal case for strings
\* ((av < bv ? -1 : 1) * dir).
CompareWithoutEqual(a, b, sortBy, order) ==
  LET dir == IF order = Asc THEN 1 ELSE -1
      av == Field(a, sortBy)
      bv == Field(b, sortBy)
  IN  IF IsNullish(av) /\ IsNullish(bv) THEN 0
      ELSE IF IsNullish(av) THEN 1
      ELSE IF IsNullish(bv) THEN -1
      ELSE IF sortBy = SortByPriority THEN (av.n - bv.n) * dir
      ELSE (IF StrLess(av.s, bv.s) THEN -1 ELSE 1) * dir
\* The comparator given to result.sort.
Compare(a, b, sortBy, order) ==
  LET dir == IF order = Asc THEN 1 ELSE -1
      av == Field(a, sortBy)
      bv == Field(b, sortBy)
  IN  IF IsNullish(av) /\ IsNullish(bv) THEN 0
      ELSE IF IsNullish(av) THEN 1
      ELSE IF IsNullish(bv) THEN -1
      ELSE IF sortBy = SortByPriority THEN (av.n - bv.n) * dir
      ELSE (IF StrLess(av.s, bv.s) THEN -1
            ELSE IF StrLess(bv.s, av.s) THEN 1 ELSE 0) * dir

\* Array.prototype.sort, which is stable: the records are inserted one by one,
\* each after the last record that does not sort after it.
InsertSorted(sorted, x, sortBy, order) ==
  LET before == {i \in 1..Len(sorted) : Compare(sorted[i], x, sortBy, order) <= 0}
      j == IF before = {} THEN 0
           ELSE CHOOSE i \in before : \A k \in before : k <= i
  IN  SubSeq(sorted, 1, j) \o <<x>> \o SubSeq(sorted, j + 1, Len(sorted))
RECURSIVE Sort(_, _, _)
Sort(ts, sortBy, order) ==
  IF ts = <<>> THEN <<>>
  ELSE InsertSorted(Sort(SubSeq(ts, 1, Len(ts) - 1), sortBy, order),
                    ts[Len(ts)], sortBy, order)

\* Array.prototype.slice(start, end) for 0 <= start <= end, 0-based.
Slice(ts, start, end) ==
  LET lo == IF start > Len(ts) THEN Len(ts) ELSE start
      hi == IF end > Len(ts) THEN Len(ts) ELSE end
  IN  SubSeq(ts, lo + 1, hi)
\* Math.ceil(a / b) for a >= 0, b >= 1
CeilDiv(a, b) == (a + b - 1) \div b

\* A variant of PageStart that counts pages from zero.
PageStartFromZero(page, pageSize) == page * pageSize
\* const start = (page - 1) * pageSize
PageStart(page, pageSize) == (page - 1) * pageSize

\* The filtered and sorted result, before pagination.
QueryResult(ts, parsed) ==
  Sort(FilterPriority(FilterStatus(FilterText(ts, parsed.q), parsed.status),
                      parsed.priority),
       parsed.sortBy, parsed.order)

\* const data = result.slice(start, start + pageSize)
PageData(result, page, pageSize) ==
  LET start == PageStart(page, pageSize)
  IN  Slice(result, start, start + pageSize)

\* { data, page, pageSize, total, totalPages }
Envelope(ts, parsed) ==
  LET result == QueryResult(ts, parsed)
      total == Len(result)
  IN  [ data       |-> IF IsNum(parsed.page)
                       THEN PageData(result, parsed.page.n, parsed.pageSize)
                       ELSE <<>>,
        page       |-> parsed.page,
        pageSize   |-> parsed.pageSize,
        total      |-> total,
        totalPages |-> CeilDiv(total, parsed.pageSize) ]

\* A variant of Query that sorts todos itself when no filter has copied it
\* (let result = todos).
QuerySortsInPlace(query) ==
  IF ~ListQuerySchemaOk(query)
  THEN /\ resp' = Response("query", NoId, query, 400,
                           ValidationBody(ListQueryIssues(query)))
       /\ UNCHANGED <<todos, now, issued>>
  ELSE LET parsed == ListQueryParse(query)
       IN  /\ resp' = Response("query", NoId, query, 200, Envelope(todos, parsed))
           /\ todos' = IF Truthy(parsed.q) \/ Truthy(parsed.status)
                          \/ Truthy(parsed.priority)
                       THEN todos
                       ELSE Sort(todos, parsed.sortBy, parsed.order)
           /\ UNCHANGED <<now, issued>>

\* let result = [...todos]: the handler works on a copy and leaves todos alone.
Query(query) ==
  /\ resp' = IF ~ListQuerySchemaOk(query)
             THEN Response("query", NoId, query, 400,
                           ValidationBody(ListQueryIssues(query)))
             ELSE Response("query", NoId, query, 200,
                           Envelope(todos, ListQueryParse(query)))
  /\ UNCHANGED <<todos, now, issued>>

\* ------------------------------------------------------------ the requests
TitleA == Str(<<"a">>)
TitleAb == Str(<<"A", "b">>)
DescB == Str(<<"b">>)
Due1 ==
  Str(<< "2", "0", "2", "4", "-", "0", "1", "-", "0", "1", "T",
         "0", "0", ":", "0", "0", ":", "0", "0", "Z" >>)
NotADate == Str(<<"x">>)
\* The leap day of 2024, without seconds, and a day February does not have.
DueLeapDay ==
  Str(<< "2", "0", "2", "4", "-", "0", "2", "-", "2", "9", "T",
         "2", "3", ":", "5", "9", "Z" >>)
DueNoSuchDay ==
  Str(<< "2", "0", "2", "4", "-", "0", "2", "-", "3", "0", "T",
         "0", "0", ":", "0", "0", ":", "0", "0", "Z" >>)
TooLongTitle == Str(Repeat("a", MaxTitleLen + 1))
TooLongDescription == Str(Repeat("b", MaxDescriptionLen + 1))

Body(t, d, s, due, p, c) ==
  [ title |-> t, description |-> d, status |-> s, dueDate |-> due,
    priority |-> p, createdAt |-> c ]
EmptyBody == [f \in BodyKeys |-> Undefined]

\* Bodies the update shape accepts: every field absent, set or (dueDate,
\* priority) cleared, and one body with a key the shape does not know.
GoodPatchBodies ==
  { Body(t, d, s, due, p, Undefined) :
      t \in {Undefined, TitleAb}, d \in {Undefined, DescB},
      s \in {Undefined, Done}, due \in {Undefined, Null, Due1},
      p \in {Undefined, Null, Num(2)} }
  \cup { Body(TitleA, Undefined, Undefined, Undefined, Undefined, NotADate),
         Body(Undefined, Undefined, Undefined, Undefined, Num(3), NotADate) }
\* Bodies the update shape rejects.
BadPatchBodies ==
  { [EmptyBody EXCEPT !.title = Str(<<>>)],
    [EmptyBody EXCEPT !.title = Null],
    [EmptyBody EXCEPT !.title = TooLongTitle],
    [EmptyBody EXCEPT !.description = Null],
    [EmptyBody EXCEPT !.description = TooLongDescription],
    [EmptyBody EXCEPT !.status = Null],
    [EmptyBody EXCEPT !.status = TitleA],
    [EmptyBody EXCEPT !.dueDate = NotADate],
    [EmptyBody EXCEPT !.dueDate = DueNoSuchDay],
    [EmptyBody EXCEPT !.priority = Num(0)],
    [EmptyBody EXCEPT !.priority = Num(4)],
    [EmptyBody EXCEPT !.title = TitleAb, !.priority = Str(<<"1">>)] }
PatchBodies == GoodPatchBodies \cup BadPatchBodies

\* Bodies PUT accepts: title set, every other field absent or set.
GoodReplaceBodies ==
  { Body(t, d, s, due, p, Undefined) :
      t \in {TitleA, TitleAb}, d \in {Undefined, DescB},
      s \in {Undefined, Pending, Done}, due \in {Undefined, Due1},
      p \in {Undefined, Num(1)} }
  \cup { Body(TitleA, Undefined, Undefined, Undefined, Num(3), NotADate) }
\* Bodies PUT rejects.
BadReplaceBodies ==
  { EmptyBody,
    [EmptyBody EXCEPT !.title = Str(<<>>)],
    [EmptyBody EXCEPT !.title = TooLongTitle],
    [EmptyBody EXCEPT !.title = TitleA, !.description = Null],
    [EmptyBody EXCEPT !.title = TitleA, !.status = Null],
    [EmptyBody EXCEPT !.title = TitleA, !.status = TitleA],
    [EmptyBody EXCEPT !.title = TitleA, !.dueDate = Null],
    [EmptyBody EXCEPT !.title = TitleA, !.dueDate = NotADate],
    [EmptyBody EXCEPT !.title = TitleA, !.priority = Null],
    [EmptyBody EXCEPT !.title = TitleA, !.priority = Num(4)] }
ReplaceBodies == GoodReplaceBodies \cup BadReplaceBodies

\* The requests of the store-level specification: a few bodies per handler,
\* some of them rejected by its schema.  The records differ in id, status and
\* timestamps; the contents of the other fields are SpecRecord's subject.
GoodCreateBodies == { [EmptyBody EXCEPT !.title = TitleA] }
BadCreateBodies == { EmptyBody, [EmptyBody EXCEPT !.priority = Num(1)] }
StoreCreateBodies == GoodCreateBodies \cup BadCreateBodies
StorePatchBodies ==
  { [EmptyBody EXCEPT !.title = TitleA, !.createdAt = NotADate],
    [EmptyBody EXCEPT !.title = Str(<<>>)] }
StoreReplaceBodies ==
  { [EmptyBody EXCEPT !.title = TitleA],
    [EmptyBody EXCEPT !.title = TitleA, !.status = Done,
                      !.createdAt = NotADate],
    [EmptyBody EXCEPT !.title = TitleA, !.status = Null] }

\* Any request on the store: several records, few bodies.
Next ==
  \/ Tick /\ UNCHANGED calls
  \/ \E body \in StoreCreateBodies : Create(body) /\ UNCHANGED calls
  \/ \E id \in ReqIds : FindById(id) /\ UNCHANGED calls
  \/ \E id \in ReqIds, body \in StorePatchBodies : PartialUpdate(id, body)
       /\ UNCHANGED calls
  \/ \E id \in ReqIds, body \in StoreReplaceBodies : Replace(id, body)
       /\ UNCHANGED calls
  \/ \E id \in ReqIds : Delete(id) /\ UNCHANGED calls
  \/ \E id \in ReqIds : MarkDone(id) /\ UNCHANGED calls
  \/ \E id \in ReqIds : MarkPending(id) /\ UNCHANGED calls

Spec == Init /\ [][Next]_vars

\* The life of one record: every request names the same id, with every body.
TheId == CHOOSE id \in ClientIds : TRUE
NextRecord ==
  \/ Tick /\ UNCHANGED calls
  \/ FindById(TheId) /\ UNCHANGED calls
  \/ \E body \in PatchBodies : PartialUpdate(TheId, body) /\ UNCHANGED calls
  \/ \E body \in ReplaceBodies : Replace(TheId, body) /\ UNCHANGED calls
  \/ Delete(TheId) /\ UNCHANGED calls
  \/ MarkDone(TheId) /\ UNCHANGED calls
  \/ MarkPending(TheId) /\ UNCHANGED calls

SpecRecord == Init /\ [][NextRecord]_vars

\* ----------------------------------------------- the query specifications
\* Clients put four records, each with its own body, in any order and at any
\* time; the collection is then queried.  The three specifications differ in
\* the queries the clients send: pages, sort orders, filters.  The clock
\* stands still in the specification of the pages, which do not depend on it.
Due2 ==
  Str(<< "2", "0", "2", "4", "-", "0", "1", "-", "0", "1", "T",
         "0", "0", ":", "0", "0", ":", "0", "0", ".", "5", "Z" >>)
QueryIds ==
  {Str(<<"c", "1">>), Str(<<"c", "2">>), Str(<<"c", "3">>), Str(<<"c", "4">>)}
SeedBody(id) ==
  IF id = Str(<<"c", "1">>)
  THEN Body(TitleA, Undefined, Undefined, Due1, Num(1), Undefined)
  ELSE IF id = Str(<<"c", "2">>)
  THEN Body(TitleAb, DescB, Done, Undefined, Num(2), Undefined)
  ELSE IF id = Str(<<"c", "3">>)
  THEN Body(DescB, Undefined, Undefined, Due2, Num(1), Undefined)
  ELSE Body(TitleA, TitleAb, Done, Undefined, Undefined, Undefined)
\* A client puts a record that is not in the collection yet.
Seed(id) == FindIndex(todos, id) = 0 /\ Replace(id, SeedBody(id))
\* A client puts the first record again.
Reseed == Replace(Str(<<"c", "1">>), SeedBody(Str(<<"c", "1">>)))

QueryOf(q, status, priority, sortBy, order, page, pageSize) ==
  [ q |-> q, status |-> status, priority |-> priority, sortBy |-> sortBy,
    order |-> order, page |-> page, pageSize |-> pageSize ]
NoQuery == [f \in QueryKeys |-> Undefined]
PageQueries ==
  { [NoQuery EXCEPT !.page = page, !.pageSize = size] :
      page \in {Undefined, Str(<<"1">>), Str(<<"2">>), Str(<<"3">>),
                Str(<<"1", "e", "9">>)},
      size \in {Str(<<"1">>), Str(<<"0", "x", "2">>)} }
  \cup { NoQuery,
         QueryOf(Undefined, Undefined, Undefined, SortByPriority, Asc,
                 Undefined, Str(<<"1">>)),
         QueryOf(Undefined, Undefined, Undefined, SortByPriority, Asc,
                 Str(<<"2", "e", "0">>), Str(<<"2">>)),
         [NoQuery EXCEPT !.page = Str(<<"\\u2000", "2", "\n">>)],
         [NoQuery EXCEPT !.status = Done, !.pageSize = Str(<<"1">>)],
         [NoQuery EXCEPT !.page = Str(<<"1", ".", "0">>),
                         !.pageSize = Str(<<"0", "3">>)] }
BadPageQueries ==
  { [NoQuery EXCEPT !.page = Str(<<"0">>)],
    [NoQuery EXCEPT !.page = Str(<<"1", ".", "5">>)],
    [NoQuery EXCEPT !.page = Str(<<"-", "1">>)],
    [NoQuery EXCEPT !.pageSize = Str(<<"1", "e", "3">>)],
    [NoQuery EXCEPT !.pageSize = NotADate] }
SortQueries ==
  { [NoQuery EXCEPT !.sortBy = sortBy, !.order = order] :
      sortBy \in SortKeys \cup {Undefined}, order \in {Asc, Desc, Undefined} }
  \cup { QueryOf(Str(<<"B">>), Undefined, Str(<<"1">>), SortByPriority, Desc,
                 Str(<<"2">>), Str(<<"1">>)),
         QueryOf(Undefined, Undefined, Undefined, SortByDueDate, Asc,
                 Str(<<"2">>), Str(<<"2">>)),
         QueryOf(TitleA, Undefined, Undefined, SortByUpdatedAt, Asc,
                 Undefined, Undefined) }
BadSortQueries ==
  { [NoQuery EXCEPT !.sortBy = TitleA], [NoQuery EXCEPT !.order = Pending] }
FilterQueries ==
  { [NoQuery EXCEPT !.q = q] :
      q \in {TitleA, Str(<<"B">>), TitleAb, Str(<<>>), Str(<<"x">>)} }
  \cup { [NoQuery EXCEPT !.status = st] : st \in {Pending, Done} }
  \cup { [NoQuery EXCEPT !.priority = Str(<<Digit(n)>>)] :
           n \in MinPriority..MaxPriority }
  \cup { NoQuery,
         [NoQuery EXCEPT !.priority = Str(<<"0", "b", "1">>)],
         QueryOf(TitleA, Done, Undefined, Undefined, Undefined, Undefined,
                 Undefined),
         QueryOf(Undefined, Pending, Str(<<"\\u00A0", "1", "\\u3000">>),
                 SortByDueDate, Asc, Undefined, Str(<<"1">>)),
         QueryOf(Str(<<"B">>), Undefined, Str(<<"1">>), SortByPriority, Desc,
                 Str(<<"2">>), Str(<<"1">>)) }
BadFilterQueries ==
  { [NoQuery EXCEPT !.priority = Str(<<"0">>)],
    [NoQuery EXCEPT !.priority = Str(<<>>)],
    [NoQuery EXCEPT !.priority = Str(<<"4">>)],
    [NoQuery EXCEPT !.priority = Str(<<"-", "1">>)],
    [NoQuery EXCEPT !.status = TitleA] }

NextPage ==
  \/ \E id \in QueryIds : Seed(id) /\ UNCHANGED calls
  \/ \E query \in PageQueries \cup BadPageQueries : Query(query)
       /\ UNCHANGED calls

SpecPage == Init /\ [][NextPage]_vars

NextSort ==
  \/ Tick /\ UNCHANGED calls
  \/ \E id \in QueryIds : Seed(id) /\ UNCHANGED calls
  \/ Reseed /\ UNCHANGED calls
  \/ FindById(Str(<<"c", "1">>)) /\ UNCHANGED calls
  \/ \E query \in SortQueries \cup BadSortQueries : Query(query)
       /\ UNCHANGED calls

SpecSort == Init /\ [][NextSort]_vars

NextFilter ==
  \/ Tick /\ UNCHANGED calls
  \/ \E id \in QueryIds : Seed(id) /\ UNCHANGED calls
  \/ \E query \in FilterQueries \cup BadFilterQueries : Query(query)
       /\ UNCHANGED calls

SpecFilter == Init /\ [][NextFilter]_vars

\* ------------------------------------------------ the create specification
\* Records are created from bodies with and without the optional fields,
\* beside a record that a client has put.
GoodRichCreateBodies ==
  { [EmptyBody EXCEPT !.title = TitleA],
    [EmptyBody EXCEPT !.title = TitleA, !.description = DescB],
    [EmptyBody EXCEPT !.title = TitleA, !.dueDate = Due1],
    [EmptyBody EXCEPT !.title = TitleA, !.priority = Num(1)],
    [EmptyBody EXCEPT !.title = TitleA, !.dueDate = DueLeapDay],
    Body(TitleAb, DescB, Undefined, Due1, Num(3), Undefined),
    Body(TitleA, Undefined, Done, Undefined, Undefined, NotADate) }
BadRichCreateBodies ==
  { EmptyBody,
    [EmptyBody EXCEPT !.title = Str(<<>>)],
    [EmptyBody EXCEPT !.title = TooLongTitle],
    [EmptyBody EXCEPT !.title = TitleA, !.description = Null],
    [EmptyBody EXCEPT !.title = TitleA, !.dueDate = NotADate],
    [EmptyBody EXCEPT !.title = TitleA, !.dueDate = DueNoSuchDay],
    [EmptyBody EXCEPT !.title = TitleA, !.priority = Null],
    [EmptyBody EXCEPT !.title = TitleA, !.priority = Num(MaxPriority + 1)],
    [EmptyBody EXCEPT !.description = Null, !.priority = Num(0)] }

NextCreate ==
  \/ Tick /\ UNCHANGED calls
  \/ \E body \in GoodRichCreateBodies \cup BadRichCreateBodies : Create(body)
       /\ UNCHANGED calls
  \/ \E id \in ReqIds : FindById(id) /\ UNCHANGED calls
  \/ \E id \in ClientIds : Replace(id, [EmptyBody EXCEPT !.title = TitleA])
       /\ UNCHANGED calls

SpecCreate == Init /\ [][NextCreate]_vars

\* ------------------------------------------------ the status specification
\* Three of the records of the query specifications, two put as pending and
\* one as done, are marked done and pending.
StatusIds == {Str(<<"c", "1">>), Str(<<"c", "2">>), Str(<<"c", "3">>)}
NextStatus ==
  \/ Tick /\ UNCHANGED calls
  \/ \E id \in StatusIds : Seed(id) /\ UNCHANGED calls
  \/ \E id \in StatusIds : MarkDone(id) /\ UNCHANGED calls
  \/ \E id \in StatusIds : MarkPending(id) /\ UNCHANGED calls

SpecStatus == Init /\ [][NextStatus]_vars

\* ------------------------------------------------- the order specification
\* The four records are put in any order, the first one is patched, put again
\* and marked done where it stands, and the collection is queried in both
\* orders by keys on which records tie.
OrderQueries ==
  { [NoQuery EXCEPT !.sortBy = sortBy, !.order = order] :
      sortBy \in {SortByCreatedAt, SortByDueDate, SortByPriority},
      order \in {Asc, Desc} }
NextOrder ==
  \/ Tick /\ UNCHANGED calls
  \/ \E id \in QueryIds : Seed(id) /\ UNCHANGED calls
  \/ Reseed /\ UNCHANGED calls
  \/ PartialUpdate(Str(<<"c", "1">>), [EmptyBody EXCEPT !.priority = Num(2)])
       /\ UNCHANGED calls
  \/ MarkDone(Str(<<"c", "1">>)) /\ UNCHANGED calls
  \/ \E query \in OrderQueries : Query(query) /\ UNCHANGED calls

SpecOrder == Init /\ [][NextOrder]_vars

\* ------------------------------------------------ requests served together
\* Several requests are in flight at a time: Node has begun to receive them
\* and runs the handler of each later, one callback at a time.  A handler
\* that consults the collection and then writes to it is taken in two steps,
\* the lookup and the write, and whether another callback may run between
\* the two is what Yields says.  The other handlers touch the collection
\* once and are one step: Create pushes, FindById reads one record, Query
\* copies the collection ([...todos]) and works on the copy.  The clock
\* stands still.
Request(op, id, body) == [op |-> op, id |-> id, body |-> body]
ServeIds == {Str(<<"c", "1">>), Str(<<"c", "2">>)}
ServeRequests ==
  { Request("put", id, [EmptyBody EXCEPT !.title = TitleA]) : id \in ServeIds }
  \cup { Request("patch", Str(<<"c", "2">>),
                 [EmptyBody EXCEPT !.title = TitleAb]) }
  \cup { Request("delete", id, NoBody) : id \in ServeIds }
  \cup { Request("put", Str(<<"c", "1">>), EmptyBody),
         Request("patch", Str(<<"c", "2">>),
                 [EmptyBody EXCEPT !.title = Str(<<>>)]),
         Request("done", Str(<<"c", "2">>), NoBody),
         Request("pending", Str(<<"c", "2">>), NoBody),
         Request("find", Str(<<"c", "2">>), NoBody),
         Request("create", NoId, [EmptyBody EXCEPT !.title = TitleA]),
         Request("query", NoId, NoQuery) }

\* A variant of Yields in which the PATCH handler awaits between its
\* findIndex and its write, so that other handlers run in between.
YieldsAfterLookup(op) == op = "patch"
\* Whether the handler gives up the thread between its lookup and its write.
\* No handler does: each is a synchronous function, without await or callback
\* between the findIndex (or find) and the assignment, and runs to completion.
Yields(op) == FALSE

\* The thread is free for a callback of caller c's request: no handler of
\* another is between its lookup and its write, save one that yielded there.
Free(c) ==
  \A d \in Callers \ {c} : calls[d].pc = "looked" => Yields(calls[d].op)

\* Node begins to receive a request of caller c: it is in flight from now
\* on, for a handler that is between its lookup and its write too.
Receive(c, req) ==
  /\ calls[c].pc = "idle"
  /\ Free(c)
  /\ calls' = [d \in Callers |->
                 IF d = c
                 THEN [pc |-> "queued", op |-> req.op, id |-> req.id,
                       body |-> req.body, idx |-> 0, raced |-> FALSE]
                 ELSE IF calls[d].pc = "looked"
                 THEN [calls[d] EXCEPT !.raced = TRUE]
                 ELSE IF calls[d].pc = "idle" THEN Idle(FALSE)
                 ELSE calls[d]]
  /\ UNCHANGED <<todos, now, issued, resp>>

\* The handler of caller c has answered.
Replied(c, raced) ==
  calls' = [d \in Callers |->
              IF d = c THEN Idle(raced)
              ELSE IF calls[d].pc = "idle" THEN Idle(FALSE) ELSE calls[d]]
\* The handler of caller c has looked the id up and goes on with idx.
Looked(c, idx) ==
  calls' = [calls EXCEPT
              ![c].pc = "looked", ![c].idx = idx,
              ![c].raced = \E d \in Callers \ {c} : calls[d].pc = "queued"]

\* POST /todos, GET /todos/:id, GET /todos: the whole handler.
ServeWhole(c) ==
  LET call == calls[c]
  IN  /\ call.pc = "queued"
      /\ call.op \in {"create", "find", "query"}
      /\ Free(c)
      /\ IF call.op = "create" THEN Create(call.body)
         ELSE IF call.op = "find" THEN FindById(call.id)
         ELSE Query(call.body)
      /\ Replied(c, FALSE)

\* PATCH, DELETE, done, pending, up to the lookup:
\*   const idx = todos.findIndex(...); if (idx === -1) return 404
\* (done and pending: const todo = todos.find(...); if (!todo) return 404;
\* the record found is noted by its index).
Lookup(c) ==
  LET call == calls[c]
      idx == FindIndex(todos, call.id)
  IN  /\ call.pc = "queued"
      /\ call.op \in {"patch", "delete", "done", "pending"}
      /\ Free(c)
      /\ IF idx = 0
         THEN /\ resp' = Response(call.op, call.id, call.body, 404,
                                  NotFoundBody)
              /\ Replied(c, FALSE)
         ELSE /\ Looked(c, idx)
              /\ UNCHANGED resp
      /\ UNCHANGED <<todos, now, issued>>

\* PUT up to the lookup: the body is parsed, then
\*   const idx = todos.findIndex(...)
LookupPut(c) ==
  LET call == calls[c]
      body == WithDefaultStatus(call.body)
      idx == FindIndex(todos, call.id)
  IN  /\ call.pc = "queued"
      /\ call.op = "put"
      /\ Free(c)
      /\ IF ~ReplaceSchemaOk(body)
         THEN /\ resp' = Response("put", call.id, call.body, 400,
                                  ValidationBody(ReplaceIssues(body)))
              /\ Replied(c, FALSE)
         ELSE /\ (idx = 0 => Len(todos) < MaxTodos)
              /\ Looked(c, idx)
              /\ UNCHANGED resp
      /\ UNCHANGED <<todos, now, issued>>

\* PATCH from the parse on, with the idx it found.
PatchAt(idx, id, body) ==
  IF ~UpdateSchemaOk(body)
  THEN /\ resp' = Response("patch", id, body, 400,
                           ValidationBody(UpdateIssues(body)))
       /\ UNCHANGED <<todos, now, issued>>
  ELSE LET updated == Merge(todos[idx], UpdateParse(body), now)
       IN  /\ todos' = [todos EXCEPT ![idx] = updated]
           /\ resp' = Response("patch", id, body, 200, updated)
           /\ UNCHANGED <<now, issued>>
\* PUT after the lookup, with the idx it found (0 for -1).
PutAt(idx, id, reqBody) ==
  LET input == ReplaceParse(WithDefaultStatus(reqBody))
      replacement == Replacement(todos, idx, id, input, now)
  IN  /\ (idx = 0 => Len(todos) < MaxTodos)
      /\ todos' = Put(todos, idx, replacement)
      /\ resp' = Response("put", id, reqBody, IF idx = 0 THEN 201 ELSE 200,
                          replacement)
      /\ UNCHANGED <<now, issued>>
\* DELETE after the lookup: const [removed] = todos.splice(idx, 1)
DeleteAt(idx, id) ==
  /\ todos' = RemoveAt(todos, idx)
  /\ resp' = Response("delete", id, NoBody, 200, todos[idx])
  /\ UNCHANGED <<now, issued>>
\* done and pending after the lookup: todo.status = ...; todo.updatedAt = ...
SetStatusAt(op, idx, id) ==
  LET todo == [todos[idx] EXCEPT
                 !.status = IF op = "done" THEN Done ELSE Pending,
                 !.updatedAt = ToISOString(now)]
  IN  /\ todos' = [todos EXCEPT ![idx] = todo]
      /\ resp' = Response(op, id, NoBody, 200, todo)
      /\ UNCHANGED <<now, issued>>

\* The rest of a handler that has looked its id up.
Write(c) ==
  LET call == calls[c]
  IN  /\ call.pc = "looked"
      /\ Free(c)
      /\ IF call.op = "patch" THEN PatchAt(call.idx, call.id, call.body)
         ELSE IF call.op = "put" THEN PutAt(call.idx, call.id, call.body)
         ELSE IF call.op = "delete" THEN DeleteAt(call.idx, call.id)
         ELSE SetStatusAt(call.op, call.idx, call.id)
      /\ Replied(c, call.raced)

NextServe ==
  \/ \E c \in Callers, req \in ServeRequests : Receive(c, req)
  \/ \E c \in Callers : ServeWhole(c)
  \/ \E c \in Callers : Lookup(c)
  \/ \E c \in Callers : LookupPut(c)
  \/ \E c \in Callers : Write(c)

SpecServe == Init /\ [][NextServe]_vars

\* ================================================================== claims
\* The record with this id is in the collection.
Has(ts, id) == \E i \in 1..Len(ts) : ts[i].id = id
\* Where it is, and the record itself.
IndexOf(ts, id) == CHOOSE i \in 1..Len(ts) : ts[i].id = id
Rec(ts, id) == ts[IndexOf(ts, id)]
\* This step is the handling of a request by handler op (Tick moves the clock
\* and leaves resp alone).
Step(op) == now' = now /\ resp'.op = op
Mutators == {"patch", "put", "done", "pending"}
Cleared == {"dueDate", "priority"}

\* C1: a successful PartialUpdate leaves every patchable field that the patch
\* does not mention (title, description, status, dueDate, priority) at the
\* value it had.
C1_PatchKeepsAbsentFields ==
  [][(Step("patch") /\ resp'.code = 200) =>
       \A f \in UpdateKeys :
         resp'.req[f] = Undefined =>
           Rec(todos', resp'.id)[f] = Rec(todos, resp'.id)[f]]_vars

\* C2: a PartialUpdate carrying null for dueDate or priority leaves the field
\* absent (undefined, not null, zero or a default) on the stored and on the
\* returned record; FindById returns the stored record as it is; and a
\* PartialUpdate carrying a value for the field stores that value, whether the
\* field was set or absent.
C2_ClearThenSet ==
  [][/\ (Step("patch") /\ resp'.code = 200) =>
          \A f \in Cleared :
            LET v == resp'.req[f]
                r == Rec(todos', resp'.id)
            IN  /\ v = Null => r[f] = Undefined /\ resp'.body[f] = Undefined
                /\ ~IsNullish(v) => r[f] = v /\ resp'.body[f] = v
     /\ (Step("find") /\ Has(todos, resp'.id)) =>
          /\ resp'.code = 200
          /\ resp'.body = Rec(todos, resp'.id)
          /\ todos' = todos]_vars
\* A patch carrying null for both fields was answered 200 for a record that
\* had been written before, and the record has neither field.
C2_Witness ==
  /\ resp.op = "patch" /\ resp.code = 200
  /\ resp.req.dueDate = Null /\ resp.req.priority = Null
  /\ Has(todos, resp.id)
  /\ Rec(todos, resp.id).dueDate = Undefined
  /\ Rec(todos, resp.id).priority = Undefined
  /\ Rec(todos, resp.id).createdAt # Rec(todos, resp.id).updatedAt

\* C3: PartialUpdate, Replace and SetStatus never change the id or the
\* createdAt of a record of the collection: every record stays at its index
\* with the id and the createdAt it had.
C3_IdAndCreatedAtKept ==
  [][(\E op \in Mutators : Step(op)) =>
       /\ Len(todos') >= Len(todos)
       /\ \A i \in 1..Len(todos) :
            /\ todos'[i].id = todos[i].id
            /\ todos'[i].createdAt = todos[i].createdAt]_vars
\* A patch whose body carried a createdAt key was applied to a record that
\* was created earlier: the record still has its older createdAt.
C3_Witness ==
  /\ resp.op = "patch" /\ resp.code = 200
  /\ resp.req.createdAt # Undefined
  /\ Has(todos, resp.id)
  /\ Rec(todos, resp.id).updatedAt = ToISOString(now)
  /\ StrLess(Rec(todos, resp.id).createdAt.s, Rec(todos, resp.id).updatedAt.s)

\* C4: no two records of the collection have the same id.
C4_UniqueIds ==
  \A i, j \in 1..Len(todos) : i # j => todos[i].id # todos[j].id
\* Two records, one created by POST and one by PUT with a client's id, and a
\* PUT that found its id present.
C4_Witness ==
  /\ Len(todos) = 2
  /\ \E i, j \in 1..2 : todos[i].id = Uuid(1) /\ todos[j].id \in ClientIds
  /\ resp.op = "put" /\ resp.code = 200

\* C5: with a clock that never goes backwards, every record has
\* updatedAt >= createdAt (the collection starts empty, and every record a
\* step adds or changes has it); a successful PartialUpdate, Replace or
\* SetStatus sets the record's updatedAt to the current time; and no step
\* decreases the updatedAt of a record that stays in the collection.
C5_UpdatedAt ==
  [][/\ todos' # todos =>
          \A i \in 1..Len(todos') :
            (\A j \in 1..Len(todos) : todos[j] # todos'[i]) =>
              /\ StrLeq(todos'[i].createdAt.s, todos'[i].updatedAt.s)
              /\ \A j \in 1..Len(todos) :
                   todos[j].id = todos'[i].id =>
                     StrLeq(todos[j].updatedAt.s, todos'[i].updatedAt.s)
     /\ \A op \in Mutators :
          (Step(op) /\ resp'.code \in {200, 201}) =>
            Rec(todos', resp'.id).updatedAt = ToISOString(now)]_vars
\* A record created at one time and marked done at a later time.
C5_Witness ==
  /\ resp.op = "done" /\ resp.code = 200
  /\ StrLess(resp.body.createdAt.s, resp.body.updatedAt.s)
  /\ Rec(todos, resp.id) = resp.body

\* The bodies of the model that PUT is meant to accept.
ValidReplaceInput(b) ==
  b \in (GoodReplaceBodies \cup StoreReplaceBodies) \ BadReplaceBodies

\* C6: Replace with valid input, when no record has the id: the record is
\* appended with exactly that id, createdAt = updatedAt = now, and 201 is
\* returned; when a record has the id: it is overwritten at its index, the
\* other records and the size are unchanged, createdAt is kept,
\* updatedAt = now, and 200 is returned.
C6_Replace ==
  [][Step("put") =>
       LET id == resp'.id
           new == resp'.body
       IN  /\ ValidReplaceInput(resp'.req) => resp'.code \in {200, 201}
           /\ (resp'.code \in {200, 201} /\ ~Has(todos, id)) =>
                /\ resp'.code = 201
                /\ todos' = todos \o <<new>>
                /\ new.id = id
                /\ new.createdAt = ToISOString(now)
                /\ new.updatedAt = ToISOString(now)
           /\ (resp'.code \in {200, 201} /\ Has(todos, id)) =>
                /\ resp'.code = 200
                /\ Len(todos') = Len(todos)
                /\ \A i \in 1..Len(todos) :
                     IF todos[i].id = id
                     THEN todos'[i] = new
                     ELSE todos'[i] = todos[i]
                /\ new.id = id
                /\ new.createdAt = Rec(todos, id).createdAt
                /\ new.updatedAt = ToISOString(now)]_vars
\* A PUT overwrote the first of two records, at a later time than the one it
\* was created at.
C6_Witness ==
  /\ resp.op = "put" /\ resp.code = 200
  /\ Len(todos) = 2
  /\ todos[1] = resp.body
  /\ StrLess(resp.body.createdAt.s, resp.body.updatedAt.s)

\* C7: Replace on an existing record stores the input in every field but id
\* and createdAt: title, description, dueDate and priority become the
\* input's, absent where the input omits them, and status becomes the input's
\* status, or pending when the input has none.
C7_ReplaceOverwrites ==
  [][(Step("put") /\ resp'.code = 200) =>
       LET r == Rec(todos', resp'.id)
           input == resp'.req
       IN  /\ \A f \in CreateKeys : r[f] = input[f]
           /\ r.status = IF input.status = Undefined THEN Pending ELSE input.status
           /\ r = resp'.body]_vars
\* A PUT with only a title overwrote a record that had been written before:
\* the record has no description, dueDate or priority and is pending.
C7_Witness ==
  /\ resp.op = "put" /\ resp.code = 200
  /\ \A f \in UpdateKeys \ {"title"} : resp.req[f] = Undefined
  /\ \A f \in {"description", "dueDate", "priority"} :
       Rec(todos, resp.id)[f] = Undefined
  /\ Rec(todos, resp.id).status = Pending
  /\ Rec(todos, resp.id).createdAt # Rec(todos, resp.id).updatedAt

\* C8: Delete of an id in the collection removes that record and no other,
\* keeps the order of the rest and returns the removed record, after which
\* the id is not in the collection; Delete of an id that is not in the
\* collection (so a second Delete of the same id) returns not-found and
\* leaves the collection as it is.
C8_Delete ==
  [][Step("delete") =>
       LET id == resp'.id
       IN  IF Has(todos, id)
           THEN LET idx == IndexOf(todos, id)
                IN  /\ resp'.code = 200
                    /\ resp'.body = todos[idx]
                    /\ todos' = SubSeq(todos, 1, idx - 1)
                                  \o SubSeq(todos, idx + 1, Len(todos))
                    /\ ~Has(todos', id)
           ELSE /\ resp'.code = 404
                /\ resp'.body = NotFoundBody
                /\ todos' = todos]_vars
\* The id generated for a created record is deleted a second time: not found,
\* while another record is in the collection.
C8_Witness ==
  /\ resp.op = "delete" /\ resp.code = 404
  /\ resp.id = Uuid(1)
  /\ Len(todos) >= 1

\* C9: FindById, PartialUpdate, Delete and SetStatus with an id that is not in
\* the collection return not-found and leave the collection unchanged.
C9_NotFound ==
  [][\A op \in {"find", "patch", "delete", "done", "pending"} :
       (Step(op) /\ ~Has(todos, resp'.id)) =>
         /\ resp'.code = 404
         /\ resp'.body = NotFoundBody
         /\ todos' = todos]_vars
\* A PartialUpdate named an id that is not in a non-empty collection.
C9_Witness ==
  /\ resp.op = "patch" /\ resp.code = 404
  /\ Len(todos) >= 1
  /\ ~Has(todos, resp.id)

\* The body of the last request fails the validation of its handler's shape.
\* The body of the error handler's 400: the message and at least one issue.
IsValidationError(body) ==
  /\ DOMAIN body = {"message", "issues"}
  /\ body.message = "Validation error"
  /\ body.issues # <<>>
InvalidInput(r) ==
  \/ r.op = "create" /\ r.req \in BadCreateBodies
  \/ r.op = "patch" /\ r.req \in BadPatchBodies
  \/ r.op = "put" /\ r.req \in BadReplaceBodies

\* C10: when the input of Create, PartialUpdate or Replace fails validation,
\* the handler returns the validation error and the collection is unchanged.
C10_InvalidInputRejected ==
  [][(\E op \in {"create", "patch", "put"} : Step(op)) /\ InvalidInput(resp')
       => /\ resp'.code = 400
          /\ IsValidationError(resp'.body)
          /\ todos' = todos]_vars

\* ------------------------------------------------------------ query claims
\* needle occurs in hay when letter case is ignored.
CaseInsensitiveSubstring(needle, hay) ==
  \E k \in 0..(Len(hay) - Len(needle)) :
    \A i \in 1..Len(needle) : LowerChar(hay[k + i]) = LowerChar(needle[i])
\* The record satisfies every filter that is present in the parsed query.
Passes(t, parsed) ==
  /\ parsed.q # Undefined =>
       \/ CaseInsensitiveSubstring(parsed.q.s, t.title.s)
       \/ CaseInsensitiveSubstring(parsed.q.s,
            IF t.description = Undefined THEN <<>> ELSE t.description.s)
  /\ parsed.status # Undefined => t.status = parsed.status
  /\ parsed.priority # Undefined => t.priority = parsed.priority
Passing(ts, parsed) == {i \in 1..Len(ts) : Passes(ts[i], parsed)}
\* A successful query step.
Answered == Step("query") /\ resp'.code = 200
\* The data answered to the same query when it asks for page n.
AskedPage(ts, parsed, n) == Envelope(ts, [parsed EXCEPT !.page = Num(n)]).data
\* The pages 1..count of an answered query: the data of the answer at the
\* page it asked for, and what the same query is answered for each other page.
AnsweredPages(ts, parsed, body, count) ==
  SubSeq([n \in 1..count |-> IF body.page = Num(n) THEN body.data
                             ELSE AskedPage(ts, parsed, n)], 1, count)
\* The sequences pages[1], ..., pages[n] laid end to end.
RECURSIVE Flatten(_, _)
Flatten(pages, n) ==
  IF n = 0 THEN <<>> ELSE Flatten(pages, n - 1) \o pages[n]
\* The records of a sequence, and whether none occurs twice in it.
Records(data) == {data[k] : k \in 1..Len(data)}
NoRepeats(data) ==
  \A i, j \in 1..Len(data) : i # j => data[i].id # data[j].id
Min(a, b) == IF a < b THEN a ELSE b
Max(a, b) == IF a > b THEN a ELSE b

\* C11: a query answers with total = the number of records passing the
\* filters and totalPages = ceil(total / pageSize).  Its data holds
\* min(pageSize, total - (page - 1) * pageSize) records, none beyond the last
\* page.  The pages 1..totalPages of the query, the answer's data among them,
\* are pairwise disjoint, hold between one and pageSize records each and
\* together every passing record exactly once; the pages after the last are
\* empty.
C11_Pagination ==
  [][Answered =>
       \A parsed \in {ListQueryParse(resp'.req)} :
       \A passing \in {Passing(todos, parsed)} :
         LET body == resp'.body
             size == body.pageSize
             last == body.totalPages
         IN  /\ body.total = Cardinality(passing)
             /\ last * size >= body.total
             /\ (last - 1) * size < body.total
             /\ Len(body.data) =
                  IF IsNum(body.page)
                  THEN Min(size, Max(0, body.total - (body.page.n - 1) * size))
                  ELSE 0
             /\ \A pages \in {AnsweredPages(todos, parsed, body, last + 2)} :
                  /\ \A n \in 1..last : Len(pages[n]) \in 1..size
                  /\ \A n, m \in 1..last :
                       n # m => Records(pages[n]) \cap Records(pages[m]) = {}
                  /\ \A all \in {Flatten(pages, last)} :
                       /\ Len(all) = body.total
                       /\ NoRepeats(all)
                       /\ Records(all) = {todos[i] : i \in passing}
                  /\ pages[last + 1] = <<>>
                  /\ pages[last + 2] = <<>>]_vars
\* The second page of three records in pages of two holds the third record.
C11_Witness ==
  /\ resp.op = "query" /\ resp.code = 200
  /\ resp.body.total = 3 /\ resp.body.pageSize = 2 /\ resp.body.page = Num(2)
  /\ resp.body.totalPages = 2 /\ Len(resp.body.data) = 1

\* The record has the sort field.
HasField(t, sortBy) == Field(t, sortBy) # Undefined /\ Field(t, sortBy) # Null
\* The keys u, v of two records that have the sort field are in the order
\* asked for: numbers for priority, strings by code unit otherwise.
InOrder(u, v, sortBy, order) ==
  IF sortBy = SortByPriority
  THEN IF order = Asc THEN u.n <= v.n ELSE u.n >= v.n
  ELSE IF order = Asc THEN StrLeq(u.s, v.s) ELSE StrLeq(v.s, u.s)

\* The records of data stand in the order asked for: every record that has
\* the sort field before every record that lacks it, and the keys of those
\* that have it non-decreasing for asc, non-increasing for desc.
Ordered(data, sortBy, order) ==
  \A i, j \in 1..Len(data) :
    i < j =>
      /\ HasField(data[j], sortBy) => HasField(data[i], sortBy)
      /\ (HasField(data[i], sortBy) /\ HasField(data[j], sortBy))
           => InOrder(Field(data[i], sortBy), Field(data[j], sortBy),
                      sortBy, order)

\* C12: the whole result of every answered query, filtered or not, holds
\* each record passing the filters once, in the order asked for.  The whole
\* result is the pages of the query laid end to end, the answer's data being
\* the page it asked for.
C12_SortOrder ==
  [][Answered =>
       \A parsed \in {ListQueryParse(resp'.req)} :
       \A passing \in {Passing(todos, parsed)} :
         LET body == resp'.body
             last == body.totalPages
         IN  \A all \in {Flatten(AnsweredPages(todos, parsed, body, last),
                                 last)} :
               /\ Len(all) = Cardinality(passing)
               /\ Records(all) = {todos[i] : i \in passing}
               /\ Ordered(all, parsed.sortBy, parsed.order)]_vars
\* Sorted by dueDate descending: the two due dates in decreasing string order,
\* then the record without one, in an order that is not the collection's.
C12_Witness ==
  /\ resp.op = "query" /\ resp.code = 200
  /\ resp.req.sortBy = SortByDueDate /\ resp.req.order = Desc
  /\ Len(resp.body.data) = 3
  /\ resp.body.data[1].dueDate = Due1
  /\ resp.body.data[2].dueDate = Due2
  /\ resp.body.data[3].dueDate = Undefined
  /\ resp.body.data # todos

\* C13: a query counts exactly the records that satisfy every filter present
\* (q as a case-insensitive substring of the title or of the description, a
\* missing description counting as empty; status; priority), returns only
\* such records, and returns all of them when they fit in the first page.
C13_Filters ==
  [][Answered =>
       \A parsed \in {ListQueryParse(resp'.req)} :
       \A passing \in {Passing(todos, parsed)} :
         LET body == resp'.body
             got == {body.data[k] : k \in 1..Len(body.data)}
         IN  /\ body.total = Cardinality(passing)
             /\ got \subseteq {todos[i] : i \in passing}
             /\ (body.page = Num(1) /\ body.total <= body.pageSize)
                  => got = {todos[i] : i \in passing}
             /\ (parsed.q = Undefined /\ parsed.status = Undefined
                   /\ parsed.priority = Undefined)
                  => body.total = Len(todos)]_vars
\* q = "B" over three records: one is matched through its description "Ab"
\* only, one has neither a "b" in its title nor a description and is left out.
C13_Witness ==
  /\ resp.op = "query" /\ resp.code = 200
  /\ resp.req.q = Str(<<"B">>)
  /\ Len(todos) = 3 /\ resp.body.total = 2
  /\ \E k \in 1..Len(resp.body.data) :
       /\ resp.body.data[k].title = TitleA
       /\ resp.body.data[k].description = TitleAb
  /\ \E i \in 1..Len(todos) :
       todos[i].title = TitleA /\ todos[i].description = Undefined

\* ----------------------------------------------------------- create claims
\* C14: Create with valid input appends exactly one record and leaves the
\* existing ones as they are; the new record has an id no other record has,
\* status pending, createdAt = updatedAt = the current time, and title,
\* description, dueDate and priority as given (absent where omitted); it is
\* the record returned, and a FindById of its id right after returns it too.
C14_Create ==
  [][/\ (Step("create") /\ resp'.req \in GoodRichCreateBodies) =>
          LET new == todos'[Len(todos')]
              input == resp'.req
          IN  /\ resp'.code = 201
              /\ Len(todos') = Len(todos) + 1
              /\ SubSeq(todos', 1, Len(todos)) = todos
              /\ \A i \in 1..Len(todos) : todos[i].id # new.id
              /\ new.status = Pending
              /\ new.createdAt = ToISOString(now)
              /\ new.updatedAt = new.createdAt
              /\ new.title = input.title
              /\ new.description = input.description
              /\ new.dueDate = input.dueDate
              /\ new.priority = input.priority
              /\ resp'.body = new
     /\ (resp.op = "create" /\ resp.code = 201
           /\ Step("find") /\ resp'.id = resp.body.id) =>
          /\ resp'.code = 200
          /\ resp'.body = resp.body
          /\ todos' = todos]_vars
\* A body that also carries status done and a createdAt has created a pending
\* record behind the one that was there.
C14_Witness ==
  /\ resp.op = "create" /\ resp.code = 201
  /\ resp.req.status = Done /\ resp.body.status = Pending
  /\ Len(todos) = 2 /\ todos[2] = resp.body
  /\ todos[1].id \in ClientIds

\* ----------------------------------------------------------- status claims
\* C15: marking an existing record done or pending, whatever its status
\* was, leaves it with that status and updatedAt = the current time, at the
\* same index, with its id, title, description, createdAt, dueDate and
\* priority as before, and leaves every other record as it was.
C15_SetStatusFrame ==
  [][\A op \in {"done", "pending"} :
       (Step(op) /\ Has(todos, resp'.id)) =>
         LET i == IndexOf(todos, resp'.id)
             old == todos[i]
             new == todos'[i]
         IN  /\ resp'.code = 200
             /\ Len(todos') = Len(todos)
             /\ \A j \in 1..Len(todos) : j # i => todos'[j] = todos[j]
             /\ new.status = (IF op = "done" THEN Done ELSE Pending)
             /\ new.updatedAt = ToISOString(now)
             /\ new.id = old.id
             /\ new.title = old.title
             /\ new.description = old.description
             /\ new.createdAt = old.createdAt
             /\ new.dueDate = old.dueDate
             /\ new.priority = old.priority
             /\ DOMAIN new = DOMAIN old
             /\ resp'.body = new]_vars
\* Both transitions have happened: the record put as done was just marked
\* pending, and the record put as pending is done; both kept their fields.
C15_Witness ==
  /\ resp.op = "pending" /\ resp.code = 200
  /\ resp.id = Str(<<"c", "2">>)
  /\ resp.body.status = Pending /\ resp.body.description = DescB
  /\ resp.body.priority = Num(2)
  /\ Has(todos, Str(<<"c", "1">>))
  /\ Rec(todos, Str(<<"c", "1">>)).status = Done
  /\ Rec(todos, Str(<<"c", "1">>)).dueDate = Due1

\* --------------------------------------------------------- ordering claims
\* C16: the body is validated before the store is consulted: an invalid body
\* of Create, PartialUpdate or Replace is answered 400 when a record with the
\* given id exists and when none does.
C16_ValidationFirst ==
  [][\A op \in {"create", "patch", "put"} :
       (Step(op) /\ InvalidInput(resp')) =>
         /\ Has(todos, resp'.id) => resp'.code = 400
         /\ ~Has(todos, resp'.id) => resp'.code = 400]_vars

\* -------------------------------------------------------- concurrency claim
\* The handler as one step: what a request does when it is served alone.
Serial(call) ==
  IF call.op = "create" THEN Create(call.body)
  ELSE IF call.op = "find" THEN FindById(call.id)
  ELSE IF call.op = "query" THEN Query(call.body)
  ELSE IF call.op = "patch" THEN PartialUpdate(call.id, call.body)
  ELSE IF call.op = "put" THEN Replace(call.id, call.body)
  ELSE IF call.op = "delete" THEN Delete(call.id)
  ELSE IF call.op = "done" THEN MarkDone(call.id)
  ELSE MarkPending(call.id)

\* C17: with several requests in flight, every handler runs as one step
\* between its lookup and its write.  While a handler is between the two,
\* the collection, the ids issued and the last response stay as they are;
\* when it writes, the index it found is still the index of its id; the
\* step in which a handler answers is the step of that handler served alone,
\* from the state just before; and nothing else changes the collection, so
\* that the collection is at any time the result of the answered requests
\* served one after another in the order of their answers.
C17_Atomic ==
  [][/\ \A c \in Callers :
          LET call == calls[c]
          IN  /\ (call.pc = "looked" /\ calls'[c].pc = "looked")
                   => UNCHANGED <<todos, issued, resp>>
              /\ (call.pc = "queued" /\ calls'[c].pc = "looked")
                   => UNCHANGED <<todos, issued, resp>>
              /\ (call.pc = "looked" /\ calls'[c].pc = "idle")
                   => /\ call.idx = FindIndex(todos, call.id)
                      /\ Serial(call)
              /\ (call.pc = "queued" /\ calls'[c].pc = "idle")
                   => Serial(call)
     /\ <<todos, issued, resp>> # <<todos', issued', resp'>>
          => \E c \in Callers : calls[c].pc # "idle" /\ calls'[c].pc = "idle"
    ]_vars
\* A PATCH of the second record has been answered 200, having run its lookup
\* and its write while the DELETE of the first record, still waiting, was in
\* flight: the index the PATCH found would not have outlived that DELETE.
C17_Witness ==
  /\ resp.op = "patch" /\ resp.code = 200
  /\ Len(todos) = 2 /\ todos[2].id = resp.id
  /\ \E c, d \in Callers :
       /\ calls[c].pc = "idle" /\ calls[c].raced
       /\ calls[d].pc = "queued" /\ calls[d].op = "delete"
       /\ calls[d].id = todos[1].id

\* C18: Query and FindById leave the collection as it is, same records with
\* the same fields in the same order, whatever the query asks for.
C18_ReadsKeepStore ==
  [][(Step("query") \/ Step("find")) =>
       /\ todos' = todos
       /\ issued' = issued]_vars
\* A query sorted by priority has answered three records in an order that is
\* not the collection's, and the collection still has its own order.
C18_Witness ==
  /\ resp.op = "query" /\ resp.code = 200
  /\ resp.req.sortBy = SortByPriority /\ resp.req.order = Asc
  /\ Len(todos) = 3 /\ Len(resp.body.data) = 3
  /\ resp.body.data # todos
  /\ todos[1].priority = Undefined
  /\ resp.body.data[3] = todos[1]

\* ------------------------------------------------------ null status claims
\* A replace request whose body is valid but for an explicit null status.
NullStatusPut ==
  /\ Step("put")
  /\ resp'.req.status = Null
  /\ [resp'.req EXCEPT !.status = Undefined] \in StoreReplaceBodies

\* C19 as stated: a replace whose status is null is accepted and the stored
\* record has status pending.
C19_NullStatusDropped ==
  [][NullStatusPut =>
       /\ resp'.code \in {200, 201}
       /\ Has(todos', resp'.id)
       /\ Rec(todos', resp'.id).status = Pending]_vars

\* C19 amended: a replace whose status is null is answered with the
\* validation error and changes nothing; a replace without a status is
\* accepted and stores status pending.
C19_NullStatusRejected ==
  [][/\ NullStatusPut =>
          /\ resp'.code = 400
          /\ resp'.body = ValidationBody(<<Issue("invalid_union", "status")>>)
          /\ todos' = todos
     /\ (Step("put") /\ resp'.req = [EmptyBody EXCEPT !.title = TitleA]) =>
          /\ resp'.code \in {200, 201}
          /\ Has(todos', resp'.id)
          /\ Rec(todos', resp'.id).status = Pending]_vars
\* A replace with null status was rejected while the record it names exists,
\* done, and stays so.
C19_Witness ==
  /\ resp.op = "put" /\ resp.code = 400
  /\ resp.req.status = Null /\ resp.req.title = TitleA
  /\ Has(todos, resp.id)
  /\ Rec(todos, resp.id).status = Done

\* ------------------------------------------------------------ order claims
\* C20: a new record goes to the end of the collection; PartialUpdate,
\* Replace of an existing id and SetStatus keep every record at its index;
\* and in the data of a query two records with equal sort keys, or both
\* without the sort field, stand in their collection order, for asc and desc.
C20_OrderKept ==
  [][/\ (Step("put") /\ resp'.code = 201) =>
          /\ SubSeq(todos', 1, Len(todos)) = todos
          /\ Len(todos') = Len(todos) + 1
          /\ todos'[Len(todos')].id = resp'.id
     /\ \A op \in Mutators :
          (Step(op) /\ Has(todos, resp'.id)) =>
            /\ Len(todos') = Len(todos)
            /\ \A i \in 1..Len(todos) : todos'[i].id = todos[i].id
     /\ Answered =>
          \A parsed \in {ListQueryParse(resp'.req)} :
            LET data == resp'.body.data
            IN  \A i, j \in 1..Len(data) :
                  (i < j /\ Field(data[i], parsed.sortBy)
                              = Field(data[j], parsed.sortBy))
                    => IndexOf(todos, data[i].id) < IndexOf(todos, data[j].id)]_vars
\* A descending query by priority has put the record with priority 2 first
\* and the two records with priority 1 behind it in their collection order,
\* after the first record of the collection was changed where it stands.
C20_Witness ==
  /\ resp.op = "query" /\ resp.code = 200
  /\ resp.req.sortBy = SortByPriority /\ resp.req.order = Desc
  /\ Len(todos) = 3 /\ Len(resp.body.data) = 3
  /\ resp.body.data[1] = todos[3]
  /\ resp.body.data[2] = todos[1] /\ resp.body.data[3] = todos[2]
  /\ todos[1].priority = Num(1) /\ todos[2].priority = Num(1)
  /\ todos[1].status = Done /\ todos[1].updatedAt # todos[1].createdAt

====
